---- MODULE Spec2Model ----
(***************************************************************************)
(* The ingest pipeline of ai-knowledge-base: the state store (file_state   *)
(* and checkpoint tables), the drive sync stage, the extraction workers,   *)
(* the indexing workers and the stale sweep.                               *)
(*                                                                         *)
(* Time is a logical clock: every state-store write transaction reads the  *)
(* clock (datetime.utcnow()) and the clock then advances, so two writes    *)
(* never carry the same timestamp.                                         *)
(***************************************************************************)
EXTENDS Integers, Sequences, FiniteSets, TLC

\* ------------------------------------------------------------------ bounds
\* The clock stops the model here: a behaviour holds at most MaxClock - 1
\* state-store writes.
MaxClock == 6

\* ------------------------------------------------------------ value spaces
Digests == {"d1", "d2"}
Origins == {"o1", "o2"}
Paths == {"a.pdf", "b.txt"}
Workers == {"w1", "w2"}
\* Documents whose partitioning yields whitespace-only text.
EmptyDocs == {"d2"}

Null == "NULL"          \* SQL NULL / Python None of a text column or argument
NoTime == 0             \* SQL NULL of a timestamp column
NoId == 0               \* SQL NULL of openai_file_id
NoRow == [status |-> "absent"]
NoItem == [path |-> Null]
NoKey == [sha |-> Null, ext |-> Null]

\* Path(name).suffix.lower()
Suffix(path) == IF path = "a.pdf" THEN ".pdf" ELSE ".txt"

\* s3_key = f"objects/{shard1}/{shard2}/{sha256}{extension}": the shards are
\* prefixes of the digest, so the key is the pair (digest, extension).
S3Key(sha256, extension) == [sha |-> sha256, ext |-> extension]
\* Path(existing_key).stem
Stem(s3_key) == s3_key.sha

VECTOR_STORE_ID == "vs"

\* The keys a source object can have.
ObjectKeys == {S3Key(d, e) : d \in Digests, e \in {Suffix(p) : p \in Paths}}

NoObject == [body |-> Null]

\* sanitize_metadata_value: control characters removed, then
\* urllib.parse.quote(cleaned, safe=''), which leaves letters, digits and
\* "_.-~" as they are: the names of the model's drive items are unchanged.
SanitizeMetadataValue(value) ==
    CASE value = "a.pdf" -> "a.pdf"
      [] value = "b.txt" -> "b.txt"

\* put_object(key, data, metadata): the object written by a new upload.
PutObject(sha256, file_id, name, path) ==
    [body |-> sha256,
     metadata |-> [sha256 |-> sha256, drive_file_id |-> file_id,
                   original_name |-> SanitizeMetadataValue(name),
                   drive_path |-> SanitizeMetadataValue(path)]]

\* update_object_metadata(key, metadata): the object copied onto itself with
\* MetadataDirective REPLACE; sha256 and drive-file-id are taken from the
\* current metadata, the rest from the argument.
UpdateObjectMetadata(object, name, path) ==
    [body |-> object.body,
     metadata |-> [sha256 |-> object.metadata.sha256,
                   drive_file_id |-> object.metadata.drive_file_id,
                   original_name |-> name, drive_path |-> path]]

VARIABLES
    file_state,     \* table file_state: digest -> row, or NoRow
    checkpoint,     \* table checkpoint, key drive_sync_last_modified (NoTime: no row)
    now,            \* the clock
    drive,          \* the drive folder: origin id -> item
    edited,         \* whether the drive's owner has edited the folder
    objects,        \* CAS source objects: set of s3 keys
    derivatives,    \* CAS derivative bundle per digest: subset of the three files
    vs_files,       \* vector store: number of files uploaded per digest
    puts,           \* number of source objects put into CAS per digest
    origin_sha,     \* per origin: the digest the last successful sync of it returned
    wk,             \* workers: position in _process_single_file / index_file
    sweep,          \* mark_stale_as_failed: the stale rows selected, not yet updated
    run,            \* DriveSync.sync: the locals of the run in progress
    txn,            \* upsert_file calls in progress, statement by statement
    stage,          \* main.py: the command in progress and its locals
    ex,             \* single-file extraction in detail: the worker's locals, its temp file, its OCR process
    object_meta,    \* CAS source objects: s3 key -> body and user metadata, or NoObject
    mig,            \* migrate_from_s3_markers: the scan, and the legacy markers in CAS
    dry,            \* the commands run with --dry-run: the flag, the handlers that returned
    rt,             \* retry_with_exponential_backoff: one call of it
    sy,             \* download_and_upload_file tasks of one batch, statement by statement
    text_stream     \* the body of text.txt as index_file streams it to the upload

vars == <<file_state, checkpoint, now, drive, edited, objects, derivatives,
          vs_files, puts, origin_sha, wk, sweep, run, txn, stage,
          ex,
          object_meta,
          mig,
          dry,
          rt,
          sy,
          text_stream>>

\* The clock bound of the behaviour: every state-store write is guarded by it.
Horizon == stage.horizon

\* ------------------------------------------------------------- state store

\* The optional keyword arguments of upsert_file, all None.
NoArgs == [drive_file_id |-> Null, drive_path |-> Null, extension |-> Null,
           openai_file_id |-> NoId, vector_store_id |-> Null,
           error_message |-> Null, error_type |-> Null]

\* upsert_file, existing row: "Handle error tracking". Any error_message that
\* is not None (the empty string included) rewrites the error block and
\* counts a retry.
RetryCountReset(existing, a) ==
    IF a.error_message = Null THEN existing.retry_count
    ELSE IF a.error_message = "" THEN 0
    ELSE existing.retry_count + 1

RetryCountAfter(existing, a) ==
    IF a.error_message # Null THEN existing.retry_count + 1
    ELSE existing.retry_count

\* upsert_file, existing row: "Update stage timestamps based on status".
SyncedAtAlways(existing, cur, status, t) ==
    IF status = "synced" THEN t ELSE cur.synced_at

SyncedAtAfter(existing, cur, status, t) ==
    IF status = "synced" /\ existing.synced_at = NoTime THEN t
    ELSE cur.synced_at

ProcessedAtAfter(existing, cur, status, t) ==
    IF status = "processed" /\ existing.processed_at = NoTime THEN t
    ELSE cur.processed_at

IndexedAtAfter(existing, cur, status, t) ==
    IF status = "indexed" /\ existing.indexed_at = NoTime THEN t
    ELSE cur.indexed_at

\* upsert_file, the UPDATE branch: the row after the update, computed from the
\* row the SELECT returned (existing) and applied to the row as it is (cur).
UpdateRow(existing, cur, s3_key, status, a, t) ==
    [cur EXCEPT
        !.status = status,
        !.updated_at = t,
        !.s3_key = s3_key,
        !.drive_file_id = IF a.drive_file_id # Null THEN a.drive_file_id ELSE @,
        !.drive_path = IF a.drive_path # Null THEN a.drive_path ELSE @,
        !.extension = IF a.extension # Null THEN a.extension ELSE @,
        !.openai_file_id = IF a.openai_file_id # NoId THEN a.openai_file_id ELSE @,
        !.vector_store_id = IF a.vector_store_id # Null THEN a.vector_store_id ELSE @,
        !.error_message = IF a.error_message # Null THEN a.error_message ELSE @,
        !.error_type = IF a.error_message # Null THEN a.error_type ELSE @,
        !.retry_count = RetryCountAfter(cur, a),
        !.synced_at = SyncedAtAfter(existing, cur, status, t),
        !.processed_at = ProcessedAtAfter(existing, cur, status, t),
        !.indexed_at = IndexedAtAfter(existing, cur, status, t)]

\* upsert_file, the INSERT branch.
InsertRow(s3_key, status, a, t) ==
    [status |-> status,
     s3_key |-> s3_key,
     drive_file_id |-> a.drive_file_id,
     drive_path |-> a.drive_path,
     extension |-> a.extension,
     synced_at |-> IF status = "synced" THEN t ELSE NoTime,
     processed_at |-> NoTime,
     indexed_at |-> NoTime,
     openai_file_id |-> a.openai_file_id,
     vector_store_id |-> a.vector_store_id,
     error_message |-> a.error_message,
     error_type |-> a.error_type,
     retry_count |-> 0,
     updated_at |-> t]

\* upsert_file as one transaction: the table after the call.
UpsertFile(fs, sha256, s3_key, status, a, t) ==
    IF fs[sha256] # NoRow
    THEN [fs EXCEPT ![sha256] = UpdateRow(fs[sha256], fs[sha256], s3_key, status, a, t)]
    ELSE [fs EXCEPT ![sha256] = InsertRow(s3_key, status, a, t)]

\* get_file_by_sha256: whether the digest has a row.
ExistingByHashNever(fs, sha256) == FALSE

ExistingByHash(fs, sha256) == fs[sha256] # NoRow

\* get_file_by_drive_id: the digests of the rows the SELECT matches (fetchone
\* takes one of them).
RowsByDriveId(fs, drive_file_id) ==
    {d \in Digests : fs[d] # NoRow /\ fs[d].drive_file_id = drive_file_id}

\* get_stale_processing_files: status IN ('processing','indexing') AND
\* updated_at < NOW() - max_age.
StaleProcessingFiles(fs, max_age, t) ==
    {d \in Digests : /\ fs[d] # NoRow
                     /\ fs[d].status \in {"processing", "indexing"}
                     /\ fs[d].updated_at < t - max_age}

\* mark_stale_as_failed: the UPDATE of one stale row; the new status comes
\* from the status the SELECT saw.
StaleRowToProcess(seen_status, row, t) ==
    [row EXCEPT !.status = "failed_process", !.error_message = "stuck",
                !.error_type = "StaleProcessing", !.updated_at = t]

StaleRow(seen_status, row, t) ==
    [row EXCEPT
        !.status = IF seen_status = "processing" THEN "failed_process" ELSE "failed_index",
        !.error_message = "stuck",
        !.error_type = "StaleProcessing",
        !.updated_at = t]

\* ------------------------------------------------------------------ sync
\* download_and_upload_file(file_meta) with dry_run = False, one action per
\* path through it. A download error raises before any write and changes
\* nothing.

Idle == [pc |-> "idle", sha |-> Null, s3_key |-> NoKey]

\* The arguments every upsert_file call of the sync stage passes.
SyncArgs(o) == [NoArgs EXCEPT !.drive_file_id = o, !.drive_path = drive[o].path]

\* STEP 1, the row is found by drive id and path and name are unchanged:
\* return (existing_key, False, sha256) without any write.
SyncSkip(o) ==
    /\ drive[o] # NoItem
    /\ \E d \in RowsByDriveId(file_state, o) :
          /\ file_state[d].drive_path = drive[o].path
          /\ origin_sha' = [origin_sha EXCEPT ![o] = Stem(file_state[d].s3_key)]
    /\ UNCHANGED <<file_state, checkpoint, now, drive, edited, objects,
                   derivatives, vs_files, puts, wk, sweep, txn, stage, ex,
                   object_meta, mig, dry, rt, sy, text_stream>>

\* STEP 1, found by drive id but renamed or moved: replace the S3 metadata
\* and upsert the row with the new path. update_object_metadata raises when
\* the object is missing; the exception is swallowed and nothing is written.
SyncMetadataUpdate(o) ==
    /\ drive[o] # NoItem
    /\ now < Horizon
    /\ \E d \in RowsByDriveId(file_state, o) :
          LET existing_key == file_state[d].s3_key IN
          /\ file_state[d].drive_path # drive[o].path
          /\ existing_key \in objects
          /\ file_state' = UpsertFile(file_state, Stem(existing_key), existing_key,
                                      "synced", SyncArgs(o), now)
          /\ object_meta' = [object_meta EXCEPT ![existing_key] =
                               UpdateObjectMetadata(@,
                                   SanitizeMetadataValue(drive[o].path),
                                   SanitizeMetadataValue(drive[o].path))]
          /\ origin_sha' = [origin_sha EXCEPT ![o] = Stem(existing_key)]
    /\ now' = now + 1
    /\ UNCHANGED <<checkpoint, drive, edited, objects, derivatives, vs_files,
                   puts, wk, sweep, txn, stage, ex, mig, dry, rt, sy,
                   text_stream>>

\* STEP 1, renamed or moved, update_object_metadata raises (always so when
\* the object is missing): the exception is logged, nothing is written, and
\* the call still returns (existing_key, False, sha256).
SyncMetadataUpdateFail(o) ==
    /\ drive[o] # NoItem
    /\ \E d \in RowsByDriveId(file_state, o) :
          /\ file_state[d].drive_path # drive[o].path
          /\ origin_sha' = [origin_sha EXCEPT ![o] = Stem(file_state[d].s3_key)]
    /\ UNCHANGED <<file_state, checkpoint, now, drive, edited, objects,
                   derivatives, vs_files, puts, wk, sweep, txn, stage, ex,
                   object_meta, mig, dry, rt, sy, text_stream>>

\* The key download_and_upload_file derives after the download.
NewKey(o) == S3Key(drive[o].bytes, Suffix(drive[o].path))

\* STEP 2, not found by drive id, the digest has a row: map the drive id to
\* the existing row, no upload.
SyncDedupeLink(o) ==
    /\ drive[o] # NoItem
    /\ now < Horizon
    /\ RowsByDriveId(file_state, o) = {}
    /\ ExistingByHash(file_state, drive[o].bytes)
    /\ file_state' = UpsertFile(file_state, drive[o].bytes, NewKey(o), "synced",
                                [SyncArgs(o) EXCEPT !.extension = Suffix(drive[o].path)],
                                now)
    /\ origin_sha' = [origin_sha EXCEPT ![o] = drive[o].bytes]
    /\ now' = now + 1
    /\ UNCHANGED <<checkpoint, drive, edited, objects, derivatives, vs_files,
                   puts, wk, sweep, txn, stage, ex, object_meta, mig, dry,
                   rt, sy, text_stream>>

\* New content: put_object, then upsert_file(SYNCED).
SyncUpload(o) ==
    /\ drive[o] # NoItem
    /\ now < Horizon
    /\ RowsByDriveId(file_state, o) = {}
    /\ ~ExistingByHash(file_state, drive[o].bytes)
    /\ objects' = objects \cup {NewKey(o)}
    /\ puts' = [puts EXCEPT ![drive[o].bytes] = @ + 1]
    /\ file_state' = UpsertFile(file_state, drive[o].bytes, NewKey(o), "synced",
                                [SyncArgs(o) EXCEPT !.extension = Suffix(drive[o].path)],
                                now)
    /\ object_meta' = [object_meta EXCEPT ![NewKey(o)] =
                         PutObject(drive[o].bytes, o, drive[o].path, drive[o].path)]
    /\ origin_sha' = [origin_sha EXCEPT ![o] = drive[o].bytes]
    /\ now' = now + 1
    /\ UNCHANGED <<checkpoint, drive, edited, derivatives, vs_files, wk, sweep,
                   txn, stage, ex, mig, dry, rt, sy, text_stream>>

\* New content, put_object raises: upsert_file(FAILED_SYNC) with the error,
\* return None.
SyncUploadFail(o) ==
    /\ drive[o] # NoItem
    /\ now < Horizon
    /\ RowsByDriveId(file_state, o) = {}
    /\ ~ExistingByHash(file_state, drive[o].bytes)
    /\ file_state' = UpsertFile(file_state, drive[o].bytes, NewKey(o), "failed_sync",
                                [SyncArgs(o) EXCEPT !.extension = Suffix(drive[o].path),
                                                    !.error_message = "error",
                                                    !.error_type = "Exception"],
                                now)
    /\ now' = now + 1
    /\ UNCHANGED <<checkpoint, drive, edited, objects, derivatives, vs_files,
                   puts, origin_sha, wk, sweep, txn, stage, ex, object_meta,
                   mig, dry, rt, sy, text_stream>>

\* The drive's owner renames or moves an item (bytes unchanged), once in a
\* behaviour.
DriveRename(o) ==
    /\ drive[o] # NoItem
    /\ ~edited
    /\ edited' = TRUE
    /\ \E p \in Paths \ {drive[o].path} :
          drive' = [drive EXCEPT ![o].path = p]
    /\ UNCHANGED <<file_state, checkpoint, now, objects, derivatives, vs_files,
                   puts, origin_sha, wk, sweep, run, txn, stage, ex,
                   object_meta, mig, dry, rt, sy, text_stream>>

\* The drive's owner replaces the content of an item between two sync runs:
\* same id, same name and path, other bytes and a newer modifiedTime. Once in
\* a behaviour.
DriveEdit(o) ==
    /\ drive[o] # NoItem
    /\ ~edited
    /\ \A q \in Origins : sy[q].pc = "idle"
    /\ edited' = TRUE
    /\ \E b \in Digests \ {drive[o].bytes} :
          drive' = [drive EXCEPT ![o].bytes = b, ![o].mtime = @ + 1]
    /\ UNCHANGED <<file_state, checkpoint, now, objects, derivatives, vs_files,
                   puts, origin_sha, wk, sweep, run, txn, stage, ex,
                   object_meta, mig, dry, rt, sy, text_stream>>

\* ------------------------------------------------------------ extraction
\* _process_single_file(sha256, s3_key, ...) with dry_run = False. A worker
\* is handed (s3_key, sha256) by list_incoming_files and then walks through
\* the function; each state-store call is one transaction.

ClearErrors == [NoArgs EXCEPT !.error_message = "", !.error_type = ""]

DerivativeFiles == <<"elements.jsonl", "text.txt", "meta.json">>

\* The first k derivative files, in the order they are written.
FirstFilesButMeta(k) == {DerivativeFiles[i] : i \in 1..(IF k > 2 THEN 2 ELSE k)}

FirstFiles(k) == {DerivativeFiles[i] : i \in 1..k}

\* list_incoming_files: rows at synced, and with retry_failed also those at
\* failed_process.
IncomingStatusesSyncedOnly(retry_failed) == {"synced"}

IncomingStatuses(retry_failed) ==
    IF retry_failed THEN {"synced", "failed_process"} ELSE {"synced"}

\* A process run lists digest d as incoming and hands it to worker w.
ListIncoming(w, d) ==
    /\ wk[w] = Idle
    /\ file_state[d] # NoRow
    /\ \E retry_failed \in BOOLEAN :
          file_state[d].status \in IncomingStatuses(retry_failed)
    /\ wk' = [wk EXCEPT ![w] = [pc |-> "p_check", sha |-> d,
                                 s3_key |-> file_state[d].s3_key]]
    /\ UNCHANGED <<file_state, checkpoint, now, drive, edited, objects,
                   derivatives, vs_files, puts, origin_sha, sweep, run, txn,
                   stage, ex, object_meta, mig, dry, rt, sy, text_stream>>

\* The statuses at which _process_single_file returns without extracting.
SkipStatuses == {"processed", "indexing", "indexed"}

\* "Check database for current status": skip when already processed.
ProcessCheck(w) ==
    /\ wk[w].pc = "p_check"
    /\ wk' = [wk EXCEPT ![w] =
                IF file_state[wk[w].sha].status \in SkipStatuses
                THEN Idle ELSE [@ EXCEPT !.pc = "p_mark"]]
    /\ UNCHANGED <<file_state, checkpoint, now, drive, edited, objects,
                   derivatives, vs_files, puts, origin_sha, sweep, run, txn,
                   stage, ex, object_meta, mig, dry, rt, sy, text_stream>>

\* "Mark as PROCESSING in database (clear any previous errors)".
ProcessMark(w) ==
    /\ wk[w].pc = "p_mark"
    /\ now < Horizon
    /\ file_state' = UpsertFile(file_state, wk[w].sha, wk[w].s3_key, "processing",
                                ClearErrors, now)
    /\ now' = now + 1
    /\ wk' = [wk EXCEPT ![w].pc = "p_extract"]
    /\ UNCHANGED <<checkpoint, drive, edited, objects, derivatives, vs_files,
                   puts, origin_sha, sweep, run, txn, stage, ex, object_meta,
                   mig, dry, rt, sy, text_stream>>

\* The text of a document is whitespace-only.
TextNeverEmpty(sha256) == FALSE

TextIsEmpty(sha256) == sha256 \in EmptyDocs

\* The worker's "except Exception": upsert_file(FAILED_PROCESS) with the error.
FailedProcessSilent(w, error_type, extension) ==
    /\ wk' = [wk EXCEPT ![w] = Idle]
    /\ UNCHANGED <<file_state, now>>

FailedProcess(w, error_type, extension) ==
    /\ now < Horizon
    /\ file_state' = UpsertFile(file_state, wk[w].sha, wk[w].s3_key, "failed_process",
                                [NoArgs EXCEPT !.error_message = "error",
                                               !.error_type = error_type,
                                               !.extension = extension],
                                now)
    /\ now' = now + 1
    /\ wk' = [wk EXCEPT ![w] = Idle]

\* Download from CAS or partitioning raises (missing object, timeout of a
\* non-PDF, parse error).
ProcessError(w) ==
    /\ wk[w].pc = "p_extract"
    /\ FailedProcess(w, "Exception", Null)
    /\ UNCHANGED <<checkpoint, drive, edited, objects, derivatives, vs_files,
                   puts, origin_sha, sweep, run, txn, stage, ex, object_meta,
                   mig, dry, rt, sy, text_stream>>

\* Partitioning returns its elements; text_content is built from them.
ProcessPartition(w) ==
    /\ wk[w].pc = "p_extract"
    /\ wk[w].s3_key \in objects
    /\ wk' = [wk EXCEPT ![w].pc =
                IF TextIsEmpty(wk[w].sha) THEN "p_empty" ELSE "p_text"]
    /\ UNCHANGED <<file_state, checkpoint, now, drive, edited, objects,
                   derivatives, vs_files, puts, origin_sha, sweep, run, txn,
                   stage, ex, object_meta, mig, dry, rt, sy, text_stream>>

\* The text is whitespace-only: FAILED_PROCESS with EmptyContentError, return
\* None before any artifact is written.
ProcessEmpty(w) ==
    /\ wk[w].pc = "p_empty"
    /\ FailedProcess(w, "EmptyContentError", wk[w].s3_key.ext)
    /\ UNCHANGED <<checkpoint, drive, edited, objects, derivatives, vs_files,
                   puts, origin_sha, sweep, run, txn, stage, ex, object_meta,
                   mig, dry, rt, sy, text_stream>>

\* elements.jsonl, text.txt and meta.json are put in that order.
ProcessUpload(w) ==
    /\ wk[w].pc = "p_text"
    /\ derivatives' = [derivatives EXCEPT ![wk[w].sha] = @ \cup FirstFiles(3)]
    /\ wk' = [wk EXCEPT ![w].pc = "p_commit"]
    /\ UNCHANGED <<file_state, checkpoint, now, drive, edited, objects,
                   vs_files, puts, origin_sha, sweep, run, txn, stage, ex,
                   object_meta, mig, dry, rt, sy, text_stream>>

\* One of the three puts raises after k files were written.
ProcessUploadFail(w) ==
    /\ wk[w].pc = "p_text"
    /\ \E k \in 0..2 :
          derivatives' = [derivatives EXCEPT ![wk[w].sha] = @ \cup FirstFiles(k)]
    /\ FailedProcess(w, "Exception", Null)
    /\ UNCHANGED <<checkpoint, drive, edited, objects, vs_files, puts,
                   origin_sha, sweep, run, txn, stage, ex, object_meta, mig,
                   dry, rt, sy, text_stream>>

\* "Mark as PROCESSED in database (clear any previous errors)".
ProcessCommit(w) ==
    /\ wk[w].pc = "p_commit"
    /\ now < Horizon
    /\ file_state' = UpsertFile(file_state, wk[w].sha, wk[w].s3_key, "processed",
                                [ClearErrors EXCEPT !.extension = wk[w].s3_key.ext],
                                now)
    /\ now' = now + 1
    /\ wk' = [wk EXCEPT ![w] = Idle]
    /\ UNCHANGED <<checkpoint, drive, edited, objects, derivatives, vs_files,
                   puts, origin_sha, sweep, run, txn, stage, ex, object_meta,
                   mig, dry, rt, sy, text_stream>>

\* -------------------------------------------------------------- indexing
\* index_file(text_key, sha256, file_record) with dry_run = False.

\* list_unindexed_files: the rows at processed; the worker keeps the row's
\* s3_key from the listing.
ListUnindexed(w, d) ==
    /\ wk[w] = Idle
    /\ file_state[d] # NoRow
    /\ file_state[d].status = "processed"
    /\ wk' = [wk EXCEPT ![w] = [pc |-> "i_mark", sha |-> d,
                                 s3_key |-> file_state[d].s3_key]]
    /\ UNCHANGED <<file_state, checkpoint, now, drive, edited, objects,
                   derivatives, vs_files, puts, origin_sha, sweep, run, txn,
                   stage, ex, object_meta, mig, dry, rt, sy, text_stream>>

\* "Mark as INDEXING in database".
IndexMark(w) ==
    /\ wk[w].pc = "i_mark"
    /\ now < Horizon
    /\ file_state' = UpsertFile(file_state, wk[w].sha, wk[w].s3_key, "indexing",
                                ClearErrors, now)
    /\ now' = now + 1
    /\ wk' = [wk EXCEPT ![w].pc = "i_upload"]
    /\ UNCHANGED <<checkpoint, drive, edited, objects, derivatives, vs_files,
                   puts, origin_sha, sweep, run, txn, stage, ex, object_meta,
                   mig, dry, rt, sy, text_stream>>

\* text.txt is streamed, uploaded and attached to the vector store.
IndexUpload(w) ==
    /\ wk[w].pc = "i_upload"
    /\ "text.txt" \in derivatives[wk[w].sha]
    /\ vs_files' = [vs_files EXCEPT ![wk[w].sha] = @ + 1]
    /\ wk' = [wk EXCEPT ![w].pc = "i_commit"]
    /\ UNCHANGED <<file_state, checkpoint, now, drive, edited, objects,
                   derivatives, puts, origin_sha, sweep, run, txn, stage, ex,
                   object_meta, mig, dry, rt, sy, text_stream>>

\* The stream, the upload or the attach raises: upsert_file(FAILED_INDEX).
IndexFail(w) ==
    /\ wk[w].pc = "i_upload"
    /\ now < Horizon
    /\ file_state' = UpsertFile(file_state, wk[w].sha, wk[w].s3_key, "failed_index",
                                [NoArgs EXCEPT !.error_message = "error",
                                               !.error_type = "Exception"],
                                now)
    /\ now' = now + 1
    /\ wk' = [wk EXCEPT ![w] = Idle]
    /\ UNCHANGED <<checkpoint, drive, edited, objects, derivatives, vs_files,
                   puts, origin_sha, sweep, run, txn, stage, ex, object_meta,
                   mig, dry, rt, sy, text_stream>>

\* "Mark as INDEXED in database" with the file id and the vector store id.
IndexCommit(w) ==
    /\ wk[w].pc = "i_commit"
    /\ now < Horizon
    /\ file_state' = UpsertFile(file_state, wk[w].sha, wk[w].s3_key, "indexed",
                                [ClearErrors EXCEPT
                                    !.openai_file_id = vs_files[wk[w].sha],
                                    !.vector_store_id = VECTOR_STORE_ID],
                                now)
    /\ now' = now + 1
    /\ wk' = [wk EXCEPT ![w] = Idle]
    /\ UNCHANGED <<checkpoint, drive, edited, objects, derivatives, vs_files,
                   puts, origin_sha, sweep, run, txn, stage, ex, object_meta,
                   mig, dry, rt, sy, text_stream>>

\* ----------------------------------------------------------- stale sweep
\* mark_stale_as_failed(max_age_hours): get_stale_processing_files in one
\* transaction, the UPDATEs of the rows it returned in a second one.

\* The --max-stale-hours values tried, in clock ticks.
StaleAges == {0, 2}

SweepSelect ==
    /\ sweep = {}
    /\ \E max_age \in StaleAges :
          /\ StaleProcessingFiles(file_state, max_age, now) # {}
          /\ sweep' = {[sha |-> d, status |-> file_state[d].status] :
                          d \in StaleProcessingFiles(file_state, max_age, now)}
    /\ UNCHANGED <<file_state, checkpoint, now, drive, edited, objects,
                   derivatives, vs_files, puts, origin_sha, wk, run, txn,
                   stage, ex, object_meta, mig, dry, rt, sy, text_stream>>

SweepUpdate ==
    /\ sweep # {}
    /\ now < Horizon
    /\ file_state' = [d \in Digests |->
                        IF \E f \in sweep : f.sha = d
                        THEN StaleRow((CHOOSE f \in sweep : f.sha = d).status,
                                      file_state[d], now)
                        ELSE file_state[d]]
    /\ now' = now + 1
    /\ sweep' = {}
    /\ UNCHANGED <<checkpoint, drive, edited, objects, derivatives, vs_files,
                   puts, origin_sha, wk, run, txn, stage, ex, object_meta,
                   mig, dry, rt, sy, text_stream>>

\* -------------------------------------------------------------- sync run
\* DriveSync.sync(max_files, force_full) with dry_run = False: the generator
\* loop, the batches handed to the thread pool, the collection of results
\* and the checkpoint writes. A task of a batch is download_and_upload_file
\* on one item; tasks of a batch complete in any order.

BatchSize == 2          \* batch_size, 10 in the source, scaled to the drive
CheckpointEvery == 2    \* interval of the incremental checkpoint, 10 in the source
MaxFilesCap == 2        \* the largest max_files tried (0 stands for None)

\* list_files_from_drive(max_files=None, modified_after): the items of the
\* folder, orderBy modifiedTime; "if modified_after" adds the filter
\* modifiedTime > modified_after to the query.
ListFilesFromDrive(modified_after) ==
    LET listed(o) == modified_after = NoTime \/ drive[o].mtime > modified_after
        ordered == IF drive["o1"].mtime <= drive["o2"].mtime THEN <<"o1", "o2">>
                   ELSE <<"o2", "o1">>
    IN SelectSeq(ordered, listed)

NoPrior == [done |-> FALSE, clean |-> FALSE, drive |-> <<>>]

NoStart == [drive |-> <<>>, file_state |-> <<>>, puts |-> <<>>]

\* No run in progress; prior describes the run that returned last.
RunIdle(prior) ==
    [pc |-> "idle", force_full |-> FALSE, max_files |-> 0,
     last_checkpoint |-> NoTime, latest_modified |-> NoTime,
     new_files_synced |-> 0, successful |-> 0, failed |-> 0,
     todo |-> <<>>, file_batch |-> <<>>, pending |-> {}, in_loop |-> FALSE,
     save_due |-> FALSE, orphans |-> {}, start |-> NoStart, prior |-> prior]

\* "if max_files and new_files_synced >= max_files"
CapReached(r) == r.max_files # 0 /\ r.new_files_synced >= r.max_files

SeqRange(q) == {q[i] : i \in 1..Len(q)}

\* The head of sync: the checkpoint is read unless force_full, the generator
\* is created without max_files and without modified_after.
StartSync(force_full, max_files) ==
    /\ run.pc = "idle"
    /\ run' = [RunIdle(run.prior) EXCEPT
                 !.pc = "loop",
                 !.force_full = force_full,
                 !.max_files = max_files,
                 !.last_checkpoint = IF force_full THEN NoTime ELSE checkpoint,
                 !.latest_modified = IF force_full THEN NoTime ELSE checkpoint,
                 !.todo = ListFilesFromDrive(NoTime),
                 !.start = [drive |-> drive, file_state |-> file_state,
                            puts |-> puts]]
    /\ UNCHANGED <<file_state, checkpoint, now, drive, edited, objects,
                   derivatives, vs_files, puts, origin_sha, wk, sweep, txn,
                   ex, object_meta, mig, dry, rt, sy, text_stream>>

\* One iteration of "for file_meta in files_generator" up to the submit of a
\* batch, or the end of the generator and the submit of the last batch.
RunLoop ==
    /\ run.pc = "loop"
    /\ run' =
         IF run.todo = <<>>
         THEN IF run.file_batch # <<>> /\ ~CapReached(run)
              THEN [run EXCEPT !.pc = "collect", !.in_loop = FALSE,
                               !.pending = SeqRange(run.file_batch)]
              ELSE [run EXCEPT !.pc = "final"]
         ELSE IF CapReached(run)
              THEN [run EXCEPT !.pc = "final"]
              ELSE LET b == Append(run.file_batch, Head(run.todo)) IN
                   IF Len(b) >= BatchSize
                   THEN [run EXCEPT !.todo = Tail(@), !.file_batch = b,
                                    !.pc = "collect", !.in_loop = TRUE,
                                    !.pending = SeqRange(b)]
                   ELSE [run EXCEPT !.todo = Tail(@), !.file_batch = b]
    /\ UNCHANGED <<file_state, checkpoint, now, drive, edited, objects,
                   derivatives, vs_files, puts, origin_sha, wk, sweep, txn,
                   stage, ex, object_meta, mig, dry, rt, sy, text_stream>>

\* The body of "for future in as_completed(...)" for the result of item o:
\* the counters, latest_modified, and whether the incremental checkpoint is
\* due (only in the loop over full batches).
Collected(r, o, ok, is_new) ==
    LET n == r.new_files_synced + (IF ok /\ is_new THEN 1 ELSE 0)
        raised == ok /\ (r.latest_modified = NoTime
                            \/ drive[o].mtime > r.latest_modified)
    IN [r EXCEPT
          !.pending = @ \ {o},
          !.successful = IF ok THEN @ + 1 ELSE @,
          !.failed = IF ok THEN @ ELSE @ + 1,
          !.new_files_synced = n,
          !.latest_modified = IF raised THEN drive[o].mtime ELSE @,
          !.save_due = raised /\ r.in_loop /\ n % CheckpointEvery = 0 /\ n > 0]

\* A task of the batch completes and its result is collected.
Collecting(o) ==
    /\ run.pc = "collect"
    /\ o \in run.pending
    /\ ~run.save_due
    /\ ~CapReached(run)

\* The download from Drive raises: nothing was written, future.result()
\* raises in the collector.
SyncDownloadFail(o) ==
    /\ drive[o] # NoItem
    /\ RowsByDriveId(file_state, o) = {}
    /\ UNCHANGED <<file_state, checkpoint, now, drive, edited, objects,
                   derivatives, vs_files, puts, origin_sha, wk, sweep, txn,
                   stage, ex, object_meta, mig, dry, rt, sy, text_stream>>

RunSkip(o) ==
    Collecting(o) /\ SyncSkip(o) /\ run' = Collected(run, o, TRUE, FALSE)

RunMetadataUpdate(o) ==
    Collecting(o) /\ SyncMetadataUpdate(o) /\ run' = Collected(run, o, TRUE, FALSE)

RunMetadataUpdateFail(o) ==
    Collecting(o) /\ SyncMetadataUpdateFail(o) /\ run' = Collected(run, o, TRUE, FALSE)

RunDedupeLink(o) ==
    Collecting(o) /\ SyncDedupeLink(o) /\ run' = Collected(run, o, TRUE, FALSE)

RunUpload(o) ==
    Collecting(o) /\ SyncUpload(o) /\ run' = Collected(run, o, TRUE, TRUE)

RunUploadFail(o) ==
    Collecting(o) /\ SyncUploadFail(o) /\ run' = Collected(run, o, FALSE, FALSE)

RunDownloadFail(o) ==
    Collecting(o) /\ SyncDownloadFail(o) /\ run' = Collected(run, o, FALSE, FALSE)

\* "Save checkpoint incrementally": save_checkpoint(latest_modified).
RunSaveCheckpoint ==
    /\ run.pc = "collect"
    /\ run.save_due
    /\ checkpoint' = run.latest_modified
    /\ run' = [run EXCEPT !.save_due = FALSE]
    /\ UNCHANGED <<file_state, now, drive, edited, objects, derivatives,
                   vs_files, puts, origin_sha, wk, sweep, txn, stage, ex,
                   object_meta, mig, dry, rt, sy, text_stream>>

\* The collection loop ends: every result was collected, or the cap was
\* reached and the loop breaks, leaving the other tasks of the batch to the
\* pool. After a full batch the generator loop goes on unless the cap is
\* reached; after the last batch the pool is shut down.
RunBatchEnd ==
    /\ run.pc = "collect"
    /\ ~run.save_due
    /\ run.pending = {} \/ CapReached(run)
    /\ run' = [run EXCEPT
                 !.orphans = @ \cup run.pending,
                 !.pending = {},
                 !.file_batch = <<>>,
                 !.pc = IF run.in_loop /\ ~CapReached(run) THEN "loop"
                        ELSE "final"]
    /\ UNCHANGED <<file_state, checkpoint, now, drive, edited, objects,
                   derivatives, vs_files, puts, origin_sha, wk, sweep, txn,
                   stage, ex, object_meta, mig, dry, rt, sy, text_stream>>

\* A task whose result nobody collects runs to its end in the pool.
RunOrphan(o) ==
    /\ o \in run.orphans
    /\ \/ SyncSkip(o)
       \/ SyncMetadataUpdate(o)
       \/ SyncMetadataUpdateFail(o)
       \/ SyncDedupeLink(o)
       \/ SyncUpload(o)
       \/ SyncUploadFail(o)
       \/ SyncDownloadFail(o)
    /\ run' = [run EXCEPT !.orphans = @ \ {o}]

\* The pool has shut down (every submitted task is over): "Save final
\* checkpoint" and return.
RunFinal ==
    /\ run.pc = "final"
    /\ run.orphans = {}
    /\ checkpoint' = IF run.latest_modified # NoTime /\ run.successful > 0
                     THEN run.latest_modified ELSE checkpoint
    /\ run' = RunIdle([done |-> TRUE,
                       clean |-> run.successful = Cardinality(Origins),
                       drive |-> run.start.drive])
    /\ UNCHANGED <<file_state, now, drive, edited, objects, derivatives,
                   vs_files, puts, origin_sha, wk, sweep, txn, stage, ex,
                   object_meta, mig, dry, rt, sy, text_stream>>

\* ------------------------------------------------- upsert_file, by statement
\* Concurrent upsert_file calls on one digest, each in its own connection
\* (autocommit off, READ COMMITTED): now is taken, the SELECT reads the
\* committed row, then the UPDATE or the INSERT is executed and committed.
\* A writer waits for the row lock of an uncommitted writer, so a write and
\* its commit are one step.

TxnDigest == "d1"

NoCall == [pc |-> "idle", status |-> Null, a |-> NoArgs, t |-> NoTime,
           existing |-> NoRow, failed |-> FALSE]

NoTxn == [base |-> NoRow, call |-> [w \in Workers |-> NoCall]]

\* The calls tried: a stage success, and a failure with its error.
TxnCalls ==
    {[status |-> "synced", a |-> NoArgs],
     [status |-> "processed", a |-> NoArgs],
     [status |-> "failed_process",
      a |-> [NoArgs EXCEPT !.error_message = "error", !.error_type = "Exception"]]}

\* "now = datetime.utcnow()" and the connection is opened.
TxnBegin(w, status, a) ==
    /\ txn.call[w].pc = "idle"
    /\ now < Horizon
    /\ txn' = [txn EXCEPT
                 !.call[w] = [NoCall EXCEPT !.pc = "select", !.status = status,
                                            !.a = a, !.t = now],
                 !.base = IF \A v \in Workers : txn.call[v].pc = "idle"
                          THEN file_state[TxnDigest] ELSE @]
    /\ now' = now + 1
    /\ UNCHANGED <<file_state, checkpoint, drive, edited, objects, derivatives,
                   vs_files, puts, origin_sha, wk, sweep, run, stage, ex,
                   object_meta, mig, dry, rt, sy, text_stream>>

\* "SELECT * FROM file_state WHERE sha256 = %s"
TxnSelect(w) ==
    /\ txn.call[w].pc = "select"
    /\ txn' = [txn EXCEPT !.call[w].pc = "write",
                          !.call[w].existing = file_state[TxnDigest]]
    /\ UNCHANGED <<file_state, checkpoint, now, drive, edited, objects,
                   derivatives, vs_files, puts, origin_sha, wk, sweep, run,
                   stage, ex, object_meta, mig, dry, rt, sy, text_stream>>

\* "if existing": the UPDATE built from the row the SELECT returned, applied
\* to the committed row, and the commit.
TxnUpdate(w) ==
    LET c == txn.call[w] IN
    /\ c.pc = "write"
    /\ c.existing # NoRow
    /\ file_state' = [file_state EXCEPT ![TxnDigest] =
                        UpdateRow(c.existing, file_state[TxnDigest],
                                  S3Key(TxnDigest, ".pdf"), c.status, c.a, c.t)]
    /\ txn' = [txn EXCEPT !.call[w].pc = "done"]
    /\ UNCHANGED <<checkpoint, now, drive, edited, objects, derivatives,
                   vs_files, puts, origin_sha, wk, sweep, run, stage, ex,
                   object_meta, mig, dry, rt, sy, text_stream>>

\* "else": the INSERT, and the commit.
TxnInsert(w) ==
    LET c == txn.call[w] IN
    /\ c.pc = "write"
    /\ c.existing = NoRow
    /\ file_state[TxnDigest] = NoRow
    /\ file_state' = [file_state EXCEPT ![TxnDigest] =
                        InsertRow(S3Key(TxnDigest, ".pdf"), c.status, c.a, c.t)]
    /\ txn' = [txn EXCEPT !.call[w].pc = "done"]
    /\ UNCHANGED <<checkpoint, now, drive, edited, objects, derivatives,
                   vs_files, puts, origin_sha, wk, sweep, run, stage, ex,
                   object_meta, mig, dry, rt, sy, text_stream>>

\* "else": the INSERT meets a row committed since the SELECT: the primary
\* key raises UniqueViolation, the transaction is rolled back and the
\* exception leaves upsert_file.
TxnDuplicateKey(w) ==
    LET c == txn.call[w] IN
    /\ c.pc = "write"
    /\ c.existing = NoRow
    /\ file_state[TxnDigest] # NoRow
    /\ txn' = [txn EXCEPT !.call[w].pc = "done", !.call[w].failed = TRUE]
    /\ UNCHANGED <<file_state, checkpoint, now, drive, edited, objects,
                   derivatives, vs_files, puts, origin_sha, wk, sweep, run,
                   stage, ex, object_meta, mig, dry, rt, sy, text_stream>>

\* Every call in progress has returned to its caller.
TxnReturn ==
    /\ \A w \in Workers : txn.call[w].pc \in {"idle", "done"}
    /\ \E w \in Workers : txn.call[w].pc = "done"
    /\ txn' = [txn EXCEPT !.call = [w \in Workers |-> NoCall]]
    /\ UNCHANGED <<file_state, checkpoint, now, drive, edited, objects,
                   derivatives, vs_files, puts, origin_sha, wk, sweep, run,
                   stage, ex, object_meta, mig, dry, rt, sy, text_stream>>

\* ------------------------------------------------------- the pipeline
\* The drive folder at the start: o1 holds d1; o2 holds the same bytes or
\* other bytes.
\* ---------------------------------------------------------------------------
\* Single-file extraction in detail: _process_single_file of processor.py
\* (engine "unstructured") and DoclingProcessor.process_single_file (engine
\* "docling") on the document of digest ExDigest, with the temp file, the
\* partitioning strategy and the subprocess of _process_with_timeout.
\* ---------------------------------------------------------------------------

ExDigest == "d1"
Extensions == {".pdf", ".txt"}
CharCounts == {0, 199, 200, 399, 400}   \* total_chars of the fast pass
MaxPageBreaks == 1                      \* PageBreak elements of the fast pass
MinCharsPerPage == 200                  \* "if chars_per_page >= 200"
\* What the subprocess of _process_with_timeout does within the 300 s.
Outcomes == {"completes", "raises", "hangs"}

NoExtract ==
    [engine |-> Null, ext |-> Null, total_chars |-> 0, page_breaks |-> 0,
     outcome |-> Null, text_empty |-> FALSE, dry_run |-> FALSE,
     pc |-> "none", tmp |-> FALSE, proc |-> "none", strategy |-> Null,
     recorded |-> Null, raised |-> Null, logged |-> Null, result |-> Null]

\* pages = 1 + the number of PageBreak elements
Pages(page_breaks) == 1 + page_breaks

Max(a, b) == IF a >= b THEN a ELSE b

\* chars_per_page = total_chars / max(1, pages); chars_per_page >= 200. The
\* quotient of two integers is at least 200 exactly when the dividend is at
\* least 200 times the divisor.
Dense(total_chars, pages) == total_chars >= MinCharsPerPage * Max(1, pages)

\* An upsert_file of the worker on its row.
ExUpsert(status, a) ==
    /\ now < Horizon
    /\ file_state' = UpsertFile(file_state, ExDigest,
                                file_state[ExDigest].s3_key, status, a, now)
    /\ now' = now + 1

ExFrame ==
    UNCHANGED <<checkpoint, drive, edited, objects, derivatives, vs_files,
                puts, origin_sha, wk, sweep, run, txn, stage, object_meta,
                   mig, dry, rt, sy, text_stream>>

\* "Mark as PROCESSING in database"; with dry_run the function returns here.
ExMark ==
    /\ ex.pc = "mark"
    /\ IF ex.dry_run
       THEN /\ ex' = [ex EXCEPT !.pc = "done", !.result = "sha256"]
            /\ UNCHANGED <<file_state, now>>
       ELSE /\ ExUpsert("processing", ClearErrors)
            /\ ex' = [ex EXCEPT !.pc = "tmp"]
    /\ ExFrame

\* tempfile.NamedTemporaryFile(suffix=ext, delete=False)
ExCreateTemp ==
    /\ ex.pc = "tmp"
    /\ ex' = [ex EXCEPT !.tmp = TRUE, !.pc = "download"]
    /\ UNCHANGED <<file_state, now>>
    /\ ExFrame

\* The object is streamed from CAS into the temp file.
ExDownload ==
    /\ ex.pc = "download"
    /\ ex' = [ex EXCEPT !.pc = IF ex.ext = ".pdf" THEN "fast" ELSE "submit"]
    /\ UNCHANGED <<file_state, now>>
    /\ ExFrame

\* get_object_stream or a chunk read raises.
ExDownloadFail ==
    /\ ex.pc = "download"
    /\ ex' = [ex EXCEPT !.raised = "ClientError", !.pc = "finally"]
    /\ UNCHANGED <<file_state, now>>
    /\ ExFrame

\* PDF: partition_pdf(strategy="fast") and the density test.
ExFast ==
    /\ ex.pc = "fast"
    /\ ex' = IF Dense(ex.total_chars, Pages(ex.page_breaks))
             THEN [ex EXCEPT !.strategy = "fast", !.pc = "elements"]
             ELSE [ex EXCEPT !.strategy = "ocr", !.pc = "submit"]
    /\ UNCHANGED <<file_state, now>>
    /\ ExFrame

\* The fast pass raises.
ExFastFail ==
    /\ ex.pc = "fast"
    /\ ex' = [ex EXCEPT !.raised = "Exception", !.pc = "finally"]
    /\ UNCHANGED <<file_state, now>>
    /\ ExFrame

\* _process_with_timeout: executor.submit(_partition_in_process, ...) starts
\* the worker process.
ExSubmit ==
    /\ ex.pc = "submit"
    /\ ex' = [ex EXCEPT !.proc = "running", !.pc = "wait"]
    /\ UNCHANGED <<file_state, now>>
    /\ ExFrame

\* future.result returns the elements; leaving the with block joins the
\* worker process.
ExResult ==
    /\ ex.pc = "wait"
    /\ ex.outcome = "completes"
    /\ ex' = [ex EXCEPT !.proc = "exited", !.pc = "elements"]
    /\ UNCHANGED <<file_state, now>>
    /\ ExFrame

\* The partitioning raises in the worker process; future.result re-raises.
ExSubprocessError ==
    /\ ex.pc = "wait"
    /\ ex.outcome = "raises"
    /\ ex' = [ex EXCEPT !.proc = "exited", !.raised = "Exception",
                        !.pc = "finally"]
    /\ UNCHANGED <<file_state, now>>
    /\ ExFrame

\* future.result(timeout=300) raises: future.cancel() on a running future
\* does nothing, executor.shutdown(wait=False, cancel_futures=True) returns
\* without waiting and ends no process, the with block's second shutdown
\* finds no manager thread to join; TimeoutError is raised to the caller.
\* PDF: "falling back to fast extraction"; other formats: "raise".
TimeoutLeavesProc(proc) == proc

ExTimeout ==
    /\ ex.pc = "wait"
    /\ ex.outcome = "hangs"
    /\ ex' = IF ex.ext = ".pdf"
             THEN [ex EXCEPT !.proc = TimeoutLeavesProc(@),
                             !.strategy = "fast_fallback", !.pc = "elements"]
             ELSE [ex EXCEPT !.proc = TimeoutLeavesProc(@),
                             !.raised = "TimeoutError", !.pc = "finally"]
    /\ UNCHANGED <<file_state, now>>
    /\ ExFrame

\* "Check if text is empty - FAIL the processing if no text extracted".
ExEmpty ==
    /\ ex.pc = "elements"
    /\ ex.text_empty
    /\ ExUpsert("failed_process",
                [NoArgs EXCEPT !.error_message = "error",
                               !.error_type = "EmptyContentError",
                               !.extension = ex.ext])
    /\ ex' = [ex EXCEPT !.result = Null, !.pc = "finally"]
    /\ ExFrame

\* The three derivative files are put; meta.json carries processing_strategy.
ExUpload ==
    /\ ex.pc = "elements"
    /\ ~ex.text_empty
    /\ ex' = [ex EXCEPT !.recorded = ex.strategy, !.pc = "commit"]
    /\ UNCHANGED <<file_state, now>>
    /\ ExFrame

\* A put of a derivative raises.
ExUploadFail ==
    /\ ex.pc = "elements"
    /\ ~ex.text_empty
    /\ ex' = [ex EXCEPT !.raised = "Exception", !.pc = "finally"]
    /\ UNCHANGED <<file_state, now>>
    /\ ExFrame

\* "Mark as PROCESSED in database"; return sha256.
ExCommit ==
    /\ ex.pc = "commit"
    /\ ExUpsert("processed", [ClearErrors EXCEPT !.extension = ex.ext])
    /\ ex' = [ex EXCEPT !.result = "sha256", !.pc = "finally"]
    /\ ExFrame

\* "finally: if os.path.exists(tmp_path): os.unlink(tmp_path)"
ExFinallyUnlinks(tmp) == FALSE

ExFinally ==
    /\ ex.pc = "finally"
    /\ ex' = [ex EXCEPT !.tmp = ExFinallyUnlinks(@),
                        !.pc = IF ex.raised # Null THEN "except" ELSE "done"]
    /\ UNCHANGED <<file_state, now>>
    /\ ExFrame

\* "except Exception": upsert_file(FAILED_PROCESS); return None.
ExExcept ==
    /\ ex.pc = "except"
    /\ ExUpsert("failed_process",
                [NoArgs EXCEPT !.error_message = "error",
                               !.error_type = ex.raised])
    /\ ex' = [ex EXCEPT !.result = Null, !.pc = "done"]
    /\ ExFrame

\* ------------------------------------------ DoclingProcessor.process_single_file
\* Database has no method mark_file_failed and none mark_file_processed: with
\* dry_run False either call raises AttributeError, in the inner handler and
\* in the outer handler too, and the error leaves the function.

\* tempfile.NamedTemporaryFile(suffix=ext, delete=False)
DocCreateTemp ==
    /\ ex.pc = "d_tmp"
    /\ ex' = [ex EXCEPT !.tmp = TRUE, !.pc = "d_download"]
    /\ UNCHANGED <<file_state, now>>
    /\ ExFrame

DocDownload ==
    /\ ex.pc = "d_download"
    /\ ex' = [ex EXCEPT !.pc = "d_convert"]
    /\ UNCHANGED <<file_state, now>>
    /\ ExFrame

\* get_object_stream raises: the outer handler, which unlinks nothing.
DocDownloadFail ==
    /\ ex.pc = "d_download"
    /\ ex' = [ex EXCEPT !.pc = "done",
                        !.raised = IF ex.dry_run THEN Null ELSE "AttributeError",
                        !.logged = "Error processing file",
                        !.result = FALSE]
    /\ UNCHANGED <<file_state, now>>
    /\ ExFrame

\* _process_with_docling returns; empty text or the uploads. With dry_run the
\* file is unlinked and the function returns; otherwise the first state-store
\* call raises and the handlers' calls raise again before any unlink.
DocConvert ==
    /\ ex.pc = "d_convert"
    /\ LET msg == IF ex.text_empty THEN "No text extracted from document"
                  ELSE "Processed successfully with Docling" IN
       ex' = IF ex.dry_run
             THEN [ex EXCEPT !.tmp = FALSE, !.pc = "done", !.logged = msg,
                             !.result = ~ex.text_empty]
             ELSE [ex EXCEPT !.pc = "done", !.raised = "AttributeError",
                             !.logged = "Error processing file",
                             !.result = FALSE]
    /\ UNCHANGED <<file_state, now>>
    /\ ExFrame

\* _process_with_docling raises: the inner handler.
DocConvertFail ==
    /\ ex.pc = "d_convert"
    /\ ex' = IF ex.dry_run
             THEN [ex EXCEPT !.tmp = FALSE, !.pc = "done",
                             !.logged = "Docling processing error",
                             !.result = FALSE]
             ELSE [ex EXCEPT !.pc = "done", !.raised = "AttributeError",
                             !.logged = "Docling processing error",
                             !.result = FALSE]
    /\ UNCHANGED <<file_state, now>>
    /\ ExFrame

\* ---------------------------------------------------------------------------
\* main.py: the commands "full" and "cleanup", run one after the other by an
\* operator. A full run is sync, then process_batch(retry_failed=True,
\* filter_sha256=None), then index_batch(filter_sha256=None), all three with
\* max_files = args.max_files (0 stands for no limit).
\* ---------------------------------------------------------------------------

MaxRunClock == 8        \* the clock bound of the behaviours of full runs
MaxKills == 1           \* kills of a full run per behaviour
HealRuns == 2           \* completed full runs counted after a kill
FullCaps == {0, 1}      \* the --max-files values tried

\* No command of main.py in progress; h is the clock bound.
StageOff(h) ==
    [pc |-> "off", max_files |-> 0, todo |-> {}, handled |-> {},
     capped |-> FALSE, cleaned |-> FALSE, kills |-> 0, runs |-> 0,
     s6 |-> "none", left |-> {}, horizon |-> h]

\* The pipeline stages driven on their own, without main.py.
NoStage == [StageOff(MaxClock) EXCEPT !.pc = "none"]

\* The first limit elements of q, all of them when limit is 0 (None).
Take(q, limit) ==
    IF limit = 0 \/ Len(q) <= limit THEN q ELSE SubSeq(q, 1, limit)

\* get_files_by_status: the rows at status, ORDER BY updated_at DESC, LIMIT
\* limit. Rows written by one transaction share updated_at and come in any
\* order.
FilesByStatus(fs, status, limit) ==
    LET S == {d \in Digests : fs[d] # NoRow /\ fs[d].status = status}
        sorted == {q \in [1..Cardinality(S) -> S] :
                     /\ \A i, j \in 1..Cardinality(S) : i # j => q[i] # q[j]
                     /\ \A i, j \in 1..Cardinality(S) :
                           i < j => fs[q[i]].updated_at >= fs[q[j]].updated_at}
    IN {Take(q, limit) : q \in sorted}

\* list_incoming_files(max_files, retry_failed): the synced rows, then with
\* retry_failed the failed_process rows, truncated to max_files.
ListIncomingFiles(fs, max_files, retry_failed) ==
    {SeqRange(Take(synced_files \o failed_files, max_files)) :
        synced_files \in FilesByStatus(fs, "synced", max_files),
        failed_files \in IF "failed_process" \in IncomingStatuses(retry_failed)
                         THEN FilesByStatus(fs, "failed_process", max_files)
                         ELSE {<<>>}}

\* list_unindexed_files(max_files): the processed rows.
ListUnindexedFilesNone(fs, max_files) == {{}}

ListUnindexedFiles(fs, max_files) ==
    {SeqRange(q) : q \in FilesByStatus(fs, "processed", max_files)}

\* The rows a stage is to select from.
Eligible(fs, statuses) ==
    {d \in Digests : fs[d] # NoRow /\ fs[d].status \in statuses}

\* The worker has written processing or indexing and not yet its outcome.
MidTransition(w) ==
    wk[w].pc \in {"p_extract", "p_empty", "p_text", "p_commit",
                  "i_upload", "i_commit"}

\* "full": STAGE 1, drive_sync.sync(max_files, force_full).
FullStart(force_full, max_files) ==
    /\ stage.pc = "off"
    /\ StartSync(force_full, max_files)
    /\ stage' = [stage EXCEPT !.pc = "sync", !.max_files = max_files,
                              !.handled = {}, !.capped = FALSE,
                              !.cleaned = FALSE,
                              !.s6 = IF @ = "swept" THEN "swept" ELSE "none"]

\* STAGE 2 begins: process_batch lists the incoming files once and submits
\* them all to its pool.
FullProcessList ==
    /\ stage.pc = "sync"
    /\ run.pc = "idle"
    /\ \E files \in ListIncomingFiles(file_state, stage.max_files, TRUE) :
          stage' = [stage EXCEPT
                      !.pc = "process", !.todo = files,
                      !.capped = files # Eligible(file_state,
                                                  IncomingStatuses(TRUE))]
    /\ UNCHANGED <<file_state, checkpoint, now, drive, edited, objects,
                   derivatives, vs_files, puts, origin_sha, wk, sweep, run, txn,
                   ex, object_meta, mig, dry, rt, sy, text_stream>>

\* A pool worker of process_batch starts _process_single_file on a listed file.
FullProcessTake(w) ==
    /\ stage.pc = "process"
    /\ wk[w] = Idle
    /\ \E d \in stage.todo :
          /\ wk' = [wk EXCEPT ![w] = [pc |-> "p_check", sha |-> d,
                                       s3_key |-> file_state[d].s3_key]]
          /\ stage' = [stage EXCEPT !.todo = @ \ {d},
                                    !.handled = @ \cup {d}]
    /\ UNCHANGED <<file_state, checkpoint, now, drive, edited, objects,
                   derivatives, vs_files, puts, origin_sha, sweep, run, txn,
                   ex, object_meta, mig, dry, rt, sy, text_stream>>

\* process_batch has collected every future; STAGE 3 begins: index_batch
\* lists the unindexed files and submits them.
FullIndexList ==
    /\ stage.pc = "process"
    /\ stage.todo = {}
    /\ \A w \in Workers : wk[w] = Idle
    /\ \E files \in ListUnindexedFiles(file_state, stage.max_files) :
          stage' = [stage EXCEPT
                      !.pc = "index", !.todo = files,
                      !.capped = @ \/ files # Eligible(file_state, {"processed"})]
    /\ UNCHANGED <<file_state, checkpoint, now, drive, edited, objects,
                   derivatives, vs_files, puts, origin_sha, wk, sweep, run, txn,
                   ex, object_meta, mig, dry, rt, sy, text_stream>>

\* A pool worker of index_batch starts index_file on a listed file.
FullIndexTake(w) ==
    /\ stage.pc = "index"
    /\ wk[w] = Idle
    /\ \E d \in stage.todo :
          /\ wk' = [wk EXCEPT ![w] = [pc |-> "i_mark", sha |-> d,
                                       s3_key |-> file_state[d].s3_key]]
          /\ stage' = [stage EXCEPT !.todo = @ \ {d},
                                    !.handled = @ \cup {d}]
    /\ UNCHANGED <<file_state, checkpoint, now, drive, edited, objects,
                   derivatives, vs_files, puts, origin_sha, sweep, run, txn,
                   ex, object_meta, mig, dry, rt, sy, text_stream>>

\* index_batch has collected every future: "Pipeline complete", os._exit(0).
FullEnd ==
    /\ stage.pc = "index"
    /\ stage.todo = {}
    /\ \A w \in Workers : wk[w] = Idle
    /\ stage' = [stage EXCEPT
                   !.pc = "off",
                   !.runs = IF @ < HealRuns THEN @ + 1 ELSE @,
                   !.s6 = IF @ = "swept" THEN "healed" ELSE @]
    /\ UNCHANGED <<file_state, checkpoint, now, drive, edited, objects,
                   derivatives, vs_files, puts, origin_sha, wk, sweep, run, txn,
                   ex, object_meta, mig, dry, rt, sy, text_stream>>

\* The process running "full" is killed while a worker is between two of its
\* state-store writes: the workers die with it and nothing is written.
KillRun ==
    /\ stage.pc \in {"process", "index"}
    /\ stage.kills < MaxKills
    /\ \E w \in Workers : MidTransition(w)
    /\ wk' = [w \in Workers |-> Idle]
    /\ stage' = [stage EXCEPT
                   !.pc = "off", !.todo = {}, !.kills = @ + 1, !.runs = 0,
                   !.cleaned = FALSE, !.s6 = "killed",
                   !.left = {[sha |-> wk[w].sha,
                              status |-> file_state[wk[w].sha].status] :
                                w \in {v \in Workers : MidTransition(v)}}]
    /\ UNCHANGED <<file_state, checkpoint, now, drive, edited, objects,
                   derivatives, vs_files, puts, origin_sha, sweep, run, txn,
                   ex, object_meta, mig, dry, rt, sy, text_stream>>

\* "cleanup": database.mark_stale_as_failed(max_age_hours), no other command
\* running.
Cleanup(max_age) ==
    /\ stage.pc = "off"
    /\ LET stale == StaleProcessingFiles(file_state, max_age, now) IN
          /\ stale # {} => now < Horizon
          /\ file_state' = [d \in Digests |->
                              IF d \in stale
                              THEN StaleRow(file_state[d].status, file_state[d], now)
                              ELSE file_state[d]]
          /\ now' = IF stale # {} THEN now + 1 ELSE now
    /\ stage' = [stage EXCEPT
                   !.cleaned = TRUE,
                   !.s6 = IF @ = "killed" /\ max_age = 0 THEN "swept" ELSE @]
    /\ UNCHANGED <<checkpoint, drive, edited, objects, derivatives, vs_files,
                   puts, origin_sha, wk, sweep, run, txn, ex, object_meta,
                   mig, dry, rt, sy, text_stream>>

\* ---------------------------------------------------------------------------
\* Full runs without end: "full --retry-failed [--max-files N]" started again
\* and again by the operator, one run at a time. The stages compare
\* updated_at values and never read them otherwise, so the table keeps each
\* row's updated_at as its rank among the rows; retry_count, which no stage
\* reads, is not kept.
\* ---------------------------------------------------------------------------

\* A time later than every updated_at of the ranked table.
LiveNow == Cardinality(Digests) + 1

\* The table with updated_at replaced by its rank, oldest first.
Ranked(fs) ==
    [d \in Digests |->
        IF fs[d] = NoRow THEN NoRow
        ELSE [fs[d] EXCEPT
                !.updated_at =
                    1 + Cardinality({e \in Digests :
                                       /\ fs[e] # NoRow
                                       /\ fs[e].updated_at < fs[d].updated_at}),
                !.retry_count = 0]]

LiveFrame ==
    UNCHANGED <<checkpoint, now, drive, edited, origin_sha, sweep, run, txn,
                ex, mig, dry, rt, sy, text_stream>>

\* "full": STAGE 1 begins, the generator lists the folder.
LiveFullStart(max_files) ==
    /\ stage.pc = "off"
    /\ stage' = [stage EXCEPT !.pc = "sync", !.max_files = max_files,
                              !.todo = {o \in Origins : drive[o] # NoItem},
                              !.handled = {}]
    /\ UNCHANGED <<file_state, objects, derivatives, vs_files, puts, wk,
                   object_meta>>
    /\ LiveFrame

\* "if max_files and new_files_synced >= max_files: break"
LiveCapReached ==
    stage.max_files # 0 /\ Cardinality(stage.handled) >= stage.max_files

\* STAGE 1, download_and_upload_file of one listed item: skip by drive id,
\* link by digest, or put_object and upsert_file(SYNCED).
LiveSyncItem(o) ==
    /\ stage.pc = "sync"
    /\ o \in stage.todo
    /\ ~LiveCapReached
    /\ IF RowsByDriveId(file_state, o) # {}
       THEN /\ stage' = [stage EXCEPT !.todo = @ \ {o}]
            /\ UNCHANGED <<file_state, objects, puts, object_meta>>
       ELSE IF ExistingByHash(file_state, drive[o].bytes)
       THEN /\ file_state' =
                 Ranked(UpsertFile(file_state, drive[o].bytes, NewKey(o), "synced",
                                   [SyncArgs(o) EXCEPT
                                       !.extension = Suffix(drive[o].path)],
                                   LiveNow))
            /\ stage' = [stage EXCEPT !.todo = @ \ {o}]
            /\ UNCHANGED <<objects, puts, object_meta>>
       ELSE /\ objects' = objects \cup {NewKey(o)}
            /\ puts' = [puts EXCEPT ![drive[o].bytes] = @ + 1]
            /\ object_meta' = [object_meta EXCEPT ![NewKey(o)] =
                                 PutObject(drive[o].bytes, o, drive[o].path,
                                           drive[o].path)]
            /\ file_state' =
                 Ranked(UpsertFile(file_state, drive[o].bytes, NewKey(o), "synced",
                                   [SyncArgs(o) EXCEPT
                                       !.extension = Suffix(drive[o].path)],
                                   LiveNow))
            /\ stage' = [stage EXCEPT !.todo = @ \ {o}, !.handled = @ \cup {o}]
    /\ UNCHANGED <<derivatives, vs_files, wk>>
    /\ LiveFrame

\* STAGE 2 begins: process_batch(max_files, retry_failed=True) lists the
\* incoming files.
LiveProcessList ==
    /\ stage.pc = "sync"
    /\ stage.todo = {} \/ LiveCapReached
    /\ \E files \in ListIncomingFiles(file_state, stage.max_files, TRUE) :
          stage' = [stage EXCEPT !.pc = "process", !.todo = files]
    /\ UNCHANGED <<file_state, objects, derivatives, vs_files, puts, wk,
                   object_meta>>
    /\ LiveFrame

\* _process_single_file of a listed file up to the PROCESSING mark.
LiveProcessMark(w) ==
    /\ stage.pc = "process"
    /\ wk[w] = Idle
    /\ \E d \in stage.todo :
          /\ stage' = [stage EXCEPT !.todo = @ \ {d}]
          /\ IF file_state[d].status \in SkipStatuses
             THEN UNCHANGED <<file_state, wk>>
             ELSE /\ file_state' =
                       Ranked(UpsertFile(file_state, d, file_state[d].s3_key,
                                         "processing", ClearErrors, LiveNow))
                  /\ wk' = [wk EXCEPT ![w] = [pc |-> "p_extract", sha |-> d,
                                               s3_key |-> file_state[d].s3_key]]
    /\ UNCHANGED <<objects, derivatives, vs_files, puts, object_meta>>
    /\ LiveFrame

\* The extraction yields text: the derivatives are put and the row is
\* written as processed.
LiveProcessOk(w) ==
    /\ wk[w].pc = "p_extract"
    /\ ~TextIsEmpty(wk[w].sha)
    /\ derivatives' = [derivatives EXCEPT ![wk[w].sha] = SeqRange(DerivativeFiles)]
    /\ file_state' = Ranked(UpsertFile(file_state, wk[w].sha, wk[w].s3_key,
                                       "processed", ClearErrors, LiveNow))
    /\ wk' = [wk EXCEPT ![w] = Idle]
    /\ UNCHANGED <<objects, vs_files, puts, stage, object_meta>>
    /\ LiveFrame

\* The extraction raises, or its text is empty: upsert_file(FAILED_PROCESS).
LiveProcessFail(w) ==
    /\ wk[w].pc = "p_extract"
    /\ file_state' =
         Ranked(UpsertFile(file_state, wk[w].sha, wk[w].s3_key, "failed_process",
                           [NoArgs EXCEPT !.error_message = "error",
                                          !.error_type = "Exception",
                                          !.extension = wk[w].s3_key.ext],
                           LiveNow))
    /\ wk' = [wk EXCEPT ![w] = Idle]
    /\ UNCHANGED <<objects, derivatives, vs_files, puts, stage, object_meta>>
    /\ LiveFrame

\* STAGE 3 begins: index_batch(max_files) lists the processed files.
LiveIndexList ==
    /\ stage.pc = "process"
    /\ stage.todo = {}
    /\ \A w \in Workers : wk[w] = Idle
    /\ \E files \in ListUnindexedFiles(file_state, stage.max_files) :
          stage' = [stage EXCEPT !.pc = "index", !.todo = files]
    /\ UNCHANGED <<file_state, objects, derivatives, vs_files, puts, wk,
                   object_meta>>
    /\ LiveFrame

\* index_file of a listed file up to the INDEXING mark.
LiveIndexMark(w) ==
    /\ stage.pc = "index"
    /\ wk[w] = Idle
    /\ \E d \in stage.todo :
          /\ stage' = [stage EXCEPT !.todo = @ \ {d}]
          /\ file_state' = Ranked(UpsertFile(file_state, d, file_state[d].s3_key,
                                             "indexing", ClearErrors, LiveNow))
          /\ wk' = [wk EXCEPT ![w] = [pc |-> "i_upload", sha |-> d,
                                       s3_key |-> file_state[d].s3_key]]
    /\ UNCHANGED <<objects, derivatives, vs_files, puts, object_meta>>
    /\ LiveFrame

\* The upload and the attach succeed: upsert_file(INDEXED).
LiveIndexOk(w) ==
    /\ wk[w].pc = "i_upload"
    /\ vs_files' = [vs_files EXCEPT ![wk[w].sha] = @ + 1]
    /\ file_state' =
         Ranked(UpsertFile(file_state, wk[w].sha, wk[w].s3_key, "indexed",
                           [ClearErrors EXCEPT
                               !.openai_file_id = vs_files'[wk[w].sha],
                               !.vector_store_id = VECTOR_STORE_ID],
                           LiveNow))
    /\ wk' = [wk EXCEPT ![w] = Idle]
    /\ UNCHANGED <<objects, derivatives, puts, stage, object_meta>>
    /\ LiveFrame

\* index_batch has collected every future: the run ends.
LiveEnd ==
    /\ stage.pc = "index"
    /\ stage.todo = {}
    /\ \A w \in Workers : wk[w] = Idle
    /\ stage' = [stage EXCEPT !.pc = "off"]
    /\ UNCHANGED <<file_state, objects, derivatives, vs_files, puts, wk,
                   object_meta>>
    /\ LiveFrame

\* ---------------------------------------------------------------------------
\* Database.migrate_from_s3_markers (command migrate)
\* ---------------------------------------------------------------------------

MaxMigrateRuns == 2

\* The scans of one run, in the order of the code.
Scans == <<"objects", "derivatives", "indexed", "failed">>

\* No migrate has run; indexed and failed are the digests with a legacy
\* marker indexed/../<sha>.indexed and failed/../<sha>.txt.
NoMigrate ==
    [pc |-> "none", scan |-> 0, dry_run |-> FALSE, todo |-> {}, runs |-> 0,
     indexed |-> {}, failed |-> {},
     before |-> [d \in Digests |-> NoRow],
     first |-> [d \in Digests |-> NoRow]]

\* The object under objects/ whose stem is the digest.
ObjectOf(sha256) == CHOOSE k \in objects : k.sha = sha256

\* list_objects(prefix), reduced to the digests the scan extracts.
Listed(scan) ==
    CASE scan = "objects" -> {k.sha : k \in objects}
      [] scan = "derivatives" -> {d \in Digests : "meta.json" \in derivatives[d]}
      [] scan = "indexed" -> mig.indexed
      [] scan = "failed" -> mig.failed

\* The content of the marker indexed/../<sha>.indexed.
IndexedMarker(sha256) == [openai_file_id |-> 1, vector_store_id |-> VECTOR_STORE_ID]

\* The content of the marker failed/../<sha>.txt.
FailedMarker(sha256) == [error |-> "E", error_type |-> "Exception"]

\* The upsert_file call of one scan for digest sha256.
MigrateUpsert(fs, scan, sha256, t) ==
    CASE scan = "objects" ->
            IF fs[sha256] # NoRow THEN fs
            ELSE LET metadata == object_meta[ObjectOf(sha256)].metadata IN
                 UpsertFile(fs, sha256, ObjectOf(sha256), "synced",
                            [NoArgs EXCEPT
                               !.drive_file_id = metadata.drive_file_id,
                               !.drive_path = metadata.drive_path,
                               !.extension = ObjectOf(sha256).ext], t)
      [] scan = "derivatives" ->
            IF fs[sha256] = NoRow THEN fs
            ELSE UpsertFile(fs, sha256, fs[sha256].s3_key, "processed",
                            [NoArgs EXCEPT !.extension = fs[sha256].s3_key.ext], t)
      [] scan = "indexed" ->
            IF fs[sha256] = NoRow THEN fs
            ELSE UpsertFile(fs, sha256, fs[sha256].s3_key, "indexed",
                            [NoArgs EXCEPT
                               !.openai_file_id = IndexedMarker(sha256).openai_file_id,
                               !.vector_store_id = IndexedMarker(sha256).vector_store_id], t)
      [] scan = "failed" ->
            IF fs[sha256] = NoRow THEN fs
            ELSE UpsertFile(fs, sha256, fs[sha256].s3_key, "failed_process",
                            [NoArgs EXCEPT
                               !.error_message = FailedMarker(sha256).error,
                               !.error_type = FailedMarker(sha256).error_type], t)

MigrateFrame ==
    UNCHANGED <<checkpoint, drive, edited, objects, derivatives, vs_files,
                puts, origin_sha, wk, sweep, run, txn, stage, ex, object_meta,
                   dry, rt, sy, text_stream>>

\* migrate starts: the scan of objects/ is listed.
MigrateStart ==
    /\ mig.pc \in {"none", "done"}
    /\ mig.runs < MaxMigrateRuns
    /\ mig' = [mig EXCEPT !.pc = "scan", !.scan = 1,
                           !.todo = Listed(Scans[1]),
                           !.before = file_state]
    /\ UNCHANGED <<file_state, now>>
    /\ MigrateFrame

\* One key of the running scan.
MigrateKey(sha256) ==
    /\ mig.pc = "scan"
    /\ sha256 \in mig.todo
    /\ file_state' = IF mig.dry_run THEN file_state
                     ELSE MigrateUpsert(file_state, Scans[mig.scan], sha256, now)
    /\ now' = IF file_state' # file_state THEN now + 1 ELSE now
    /\ mig' = [mig EXCEPT !.todo = @ \ {sha256}]
    /\ MigrateFrame

\* The running scan is exhausted: the next prefix is listed.
MigrateNextScan ==
    /\ mig.pc = "scan"
    /\ mig.todo = {}
    /\ mig.scan < Len(Scans)
    /\ mig' = [mig EXCEPT !.scan = @ + 1, !.todo = Listed(Scans[mig.scan + 1])]
    /\ UNCHANGED <<file_state, now>>
    /\ MigrateFrame

\* The scan of failed/ is exhausted: migrate returns.
MigrateReturn ==
    /\ mig.pc = "scan"
    /\ mig.todo = {}
    /\ mig.scan = Len(Scans)
    /\ mig' = [mig EXCEPT !.pc = "done", !.runs = @ + 1,
                           !.first = IF mig.runs = 0 THEN file_state ELSE @]
    /\ UNCHANGED <<file_state, now>>
    /\ MigrateFrame

\* ---------------------------------------------------------------------------
\* The stages with dry_run = True (--dry-run)
\* ---------------------------------------------------------------------------

\* No command with --dry-run has run.
NoDry == [dry_run |-> FALSE, returned |-> {}]

\* "if not self.dry_run:" in front of a write: the value a store holds after
\* the statement.
IfNotDryRunWrites(dry_run, before, after) == after

IfNotDryRun(dry_run, before, after) == IF dry_run THEN before ELSE after

\* save_checkpoint(timestamp): the checkpoint after the call.
SaveCheckpoint(dry_run, value, timestamp) ==
    IF dry_run THEN value ELSE timestamp

\* The handler named has returned.
DryReturned(handler) == dry' = [dry EXCEPT !.returned = @ \cup {handler}]

DryFrame ==
    UNCHANGED <<drive, edited, sweep, run, txn, stage, ex, mig, rt, sy, text_stream>>

\* download_and_upload_file, STEP 1, found by drive id and renamed or moved:
\* the metadata update and the upsert are behind "if not self.dry_run".
DrySyncFound(o) ==
    /\ dry.dry_run
    /\ drive[o] # NoItem
    /\ \E d \in RowsByDriveId(file_state, o) :
          LET existing_key == file_state[d].s3_key IN
          /\ file_state[d].drive_path # drive[o].path
          /\ existing_key \in objects
          /\ file_state' = IfNotDryRun(dry.dry_run, file_state,
                               UpsertFile(file_state, Stem(existing_key), existing_key,
                                          "synced", SyncArgs(o), now))
          /\ object_meta' = IfNotDryRun(dry.dry_run, object_meta,
                               [object_meta EXCEPT ![existing_key] =
                                   UpdateObjectMetadata(@,
                                       SanitizeMetadataValue(drive[o].path),
                                       SanitizeMetadataValue(drive[o].path))])
          /\ origin_sha' = [origin_sha EXCEPT ![o] = Stem(existing_key)]
    /\ now' = IF file_state' # file_state THEN now + 1 ELSE now
    /\ DryReturned("sync_found")
    /\ UNCHANGED <<checkpoint, objects, derivatives, vs_files, puts, wk>>
    /\ DryFrame

\* STEP 2, the digest has a row: the upsert that maps the drive id is behind
\* "if not self.dry_run".
DrySyncDedupeLink(o) ==
    /\ dry.dry_run
    /\ drive[o] # NoItem
    /\ RowsByDriveId(file_state, o) = {}
    /\ ExistingByHash(file_state, drive[o].bytes)
    /\ file_state' = IfNotDryRun(dry.dry_run, file_state,
                         UpsertFile(file_state, drive[o].bytes, NewKey(o), "synced",
                                    [SyncArgs(o) EXCEPT
                                        !.extension = Suffix(drive[o].path)],
                                    now))
    /\ now' = IF file_state' # file_state THEN now + 1 ELSE now
    /\ origin_sha' = [origin_sha EXCEPT ![o] = drive[o].bytes]
    /\ DryReturned("sync_link")
    /\ UNCHANGED <<checkpoint, objects, derivatives, vs_files, puts, wk,
                   object_meta, rt, sy, text_stream>>
    /\ DryFrame

\* New content: "[DRY RUN] Would upload", return before put_object.
DrySyncWouldUpload(o) ==
    /\ dry.dry_run
    /\ drive[o] # NoItem
    /\ RowsByDriveId(file_state, o) = {}
    /\ ~ExistingByHash(file_state, drive[o].bytes)
    /\ origin_sha' = [origin_sha EXCEPT ![o] = drive[o].bytes]
    /\ DryReturned("sync_upload")
    /\ UNCHANGED <<file_state, now, checkpoint, objects, derivatives, vs_files,
                   puts, wk, object_meta, rt, sy, text_stream>>
    /\ DryFrame

\* sync saves the checkpoint with the modified time of an item it handled.
DrySaveCheckpoint(o) ==
    /\ dry.dry_run
    /\ origin_sha[o] # Null
    /\ checkpoint' = SaveCheckpoint(dry.dry_run, checkpoint, drive[o].mtime)
    /\ DryReturned("save_checkpoint")
    /\ UNCHANGED <<file_state, now, objects, derivatives, vs_files, puts,
                   origin_sha, wk, object_meta, rt, sy, text_stream>>
    /\ DryFrame

\* _process_single_file after the status check: the upsert to PROCESSING is
\* behind "if not dry_run", then "[DRY RUN] Would process file", return.
DryProcessReturn(w) ==
    /\ dry.dry_run
    /\ wk[w].pc = "p_mark"
    /\ file_state' = IfNotDryRun(dry.dry_run, file_state,
                         UpsertFile(file_state, wk[w].sha, wk[w].s3_key,
                                    "processing", ClearErrors, now))
    /\ now' = IF file_state' # file_state THEN now + 1 ELSE now
    /\ wk' = [wk EXCEPT ![w] = Idle]
    /\ DryReturned("process")
    /\ UNCHANGED <<checkpoint, objects, derivatives, vs_files, puts,
                   origin_sha, object_meta, rt, sy, text_stream>>
    /\ DryFrame

\* index_file: "[DRY RUN] Would upload to Vector Store", return a made-up id.
DryIndexReturn(w) ==
    /\ dry.dry_run
    /\ wk[w].pc = "i_mark"
    /\ wk' = [wk EXCEPT ![w] = Idle]
    /\ DryReturned("index")
    /\ UNCHANGED <<file_state, now, checkpoint, objects, derivatives, vs_files,
                   puts, origin_sha, object_meta, rt, sy, text_stream>>
    /\ DryFrame

\* ---------------------------------------------------------------------------
\* retry_with_exponential_backoff(func)
\* ---------------------------------------------------------------------------

max_retries == 5
initial_delay == 1
max_delay == 60
backoff_factor == 2

\* The status codes of the APIError func raises.
StatusCodes == {400, 499, 500, 599}

\* What one call of func comes to: its result or the exception it raises.
FuncReturns == [error |-> Null, status_code |-> 200]
RateLimit == [error |-> "RateLimitError", status_code |-> 429]
APIErrorOf(status_code) == [error |-> "APIError", status_code |-> status_code]
OtherError == [error |-> "Exception", status_code |-> 0]

\* Not called.
\* text.txt in chunks of the stream.
TextChunks == 2

\* "text_stream, _ = self.s3.get_object_stream(text_key)": a StreamingBody,
\* read forwards only; pos chunks have been read, sent lists what each call
\* of upload_file put into its request.
Unread == [pos |-> 0, sent |-> <<>>]

\* upload_file, "files.create(file=text_stream, ...)", reads n chunks of
\* what the stream has left into the request body.
ReadStream(ts, n) == [pos |-> ts.pos + n, sent |-> Append(ts.sent, n)]

\* What the stream has left.
Remaining(ts) == TextChunks - ts.pos

NoRetry ==
    [pc |-> "idle", attempt |-> 0, calls |-> <<>>, waits |-> <<>>,
     last_exception |-> Null, result |-> Null, raised |-> Null]

RECURSIVE Power(_, _)
Power(b, n) == IF n = 0 THEN 1 ELSE b * Power(b, n - 1)

Min(a, b) == IF a <= b THEN a ELSE b

\* min(delay * (backoff_factor ** attempt), max_delay)
WaitTime(delay, attempt) == Min(delay * Power(backoff_factor, attempt), max_delay)

\* "if 500 <= e.status_code < 600 and attempt < max_retries - 1"
RetryAPIErrorAlways(status_code, attempt) == attempt < max_retries - 1

RetryAPIError(status_code, attempt) ==
    /\ 500 <= status_code
    /\ status_code < 600
    /\ attempt < max_retries - 1

RetryFrame ==
    UNCHANGED <<file_state, checkpoint, now, drive, edited, objects,
                derivatives, vs_files, puts, origin_sha, wk, sweep, run, txn,
                stage, ex, object_meta, mig, dry, sy>>

\* The call of retry_with_exponential_backoff: delay = initial_delay, the
\* loop begins with attempt 0.
RetryCall ==
    /\ rt.pc = "idle"
    /\ rt' = [rt EXCEPT !.pc = "try"]
    /\ UNCHANGED text_stream
    /\ RetryFrame

\* The call of func raises after the request took some of the stream.
FuncRaises ==
    \E n \in 0..Remaining(text_stream) :
        text_stream' = ReadStream(text_stream, n)

\* "return func()": the request took all the stream had left.
RetryReturn ==
    /\ rt.pc = "try"
    /\ rt' = [rt EXCEPT !.pc = "returned",
                         !.calls = Append(@, FuncReturns),
                         !.result = "result"]
    /\ text_stream' = ReadStream(text_stream, Remaining(text_stream))
    /\ RetryFrame

\* The exception propagates out of the function.
Raise(e) ==
    rt' = [rt EXCEPT !.pc = "raised", !.calls = Append(@, e),
                     !.last_exception = e, !.raised = e]

\* time.sleep(wait_time), then the loop's next attempt.
SleepAndRetry(e) ==
    rt' = [rt EXCEPT !.calls = Append(@, e), !.last_exception = e,
                     !.waits = Append(@, WaitTime(initial_delay, rt.attempt)),
                     !.attempt = @ + 1]

\* func raises RateLimitError.
RetryRateLimitError ==
    /\ rt.pc = "try"
    /\ IF rt.attempt < max_retries - 1 THEN SleepAndRetry(RateLimit)
       ELSE Raise(RateLimit)
    /\ FuncRaises
    /\ RetryFrame

\* func raises another APIError.
RetryAPIStatusError(status_code) ==
    /\ rt.pc = "try"
    /\ IF RetryAPIError(status_code, rt.attempt)
       THEN SleepAndRetry(APIErrorOf(status_code))
       ELSE Raise(APIErrorOf(status_code))
    /\ FuncRaises
    /\ RetryFrame

\* func raises an exception no except clause names.
RetryOtherError ==
    /\ rt.pc = "try"
    /\ Raise(OtherError)
    /\ FuncRaises
    /\ RetryFrame

\* ---------------------------------------------------------------------------
\* The tasks of one sync batch side by side: download_and_upload_file on the
\* pool's threads, each state-store call a transaction of its own
\* ---------------------------------------------------------------------------

\* No task is submitted.
NoTask == [pc |-> "idle", existing |-> NoRow, result |-> Null]

NoTasks == [o \in Origins |-> NoTask]

SyFrame ==
    UNCHANGED <<checkpoint, drive, edited, derivatives, vs_files, origin_sha,
                wk, sweep, run, txn, stage, ex, mig, dry, rt, text_stream>>

\* executor.submit(self.download_and_upload_file, file_meta)
SySubmit(o) ==
    /\ sy[o].pc = "idle"
    /\ drive[o] # NoItem
    /\ sy' = [sy EXCEPT ![o].pc = "by_drive_id"]
    /\ UNCHANGED <<file_state, now, objects, puts, object_meta>>
    /\ SyFrame

\* STEP 1: file_already_synced. A row with the drive id ends the task (the
\* paths through it are SyncSkip and SyncMetadataUpdate); otherwise the file
\* is downloaded and hashed.
SyByDriveId(o) ==
    /\ sy[o].pc = "by_drive_id"
    /\ sy' = [sy EXCEPT ![o] =
                IF RowsByDriveId(file_state, o) # {}
                THEN [@ EXCEPT !.pc = "done", !.result = "existing"]
                ELSE [@ EXCEPT !.pc = "by_hash"]]
    /\ UNCHANGED <<file_state, now, objects, puts, object_meta>>
    /\ SyFrame

\* STEP 2: "existing_by_hash = self.database.get_file_by_sha256(sha256)".
SyByHash(o) ==
    /\ sy[o].pc = "by_hash"
    /\ sy' = [sy EXCEPT ![o].pc =
                IF ExistingByHash(file_state, drive[o].bytes) THEN "link" ELSE "put"]
    /\ UNCHANGED <<file_state, now, objects, puts, object_meta>>
    /\ SyFrame

\* The digest had a row: upsert_file(SYNCED) maps the drive id, no upload.
SyLink(o) ==
    /\ sy[o].pc = "link"
    /\ file_state' = UpsertFile(file_state, drive[o].bytes, NewKey(o), "synced",
                                [SyncArgs(o) EXCEPT !.extension = Suffix(drive[o].path)],
                                now)
    /\ now' = now + 1
    /\ sy' = [sy EXCEPT ![o].pc = "done", ![o].result = "linked"]
    /\ UNCHANGED <<objects, puts, object_meta>>
    /\ SyFrame

\* s3_client.put_object(s3_key, file_bytes, metadata)
SyPut(o) ==
    /\ sy[o].pc = "put"
    /\ objects' = objects \cup {NewKey(o)}
    /\ puts' = [puts EXCEPT ![drive[o].bytes] = @ + 1]
    /\ object_meta' = [object_meta EXCEPT ![NewKey(o)] =
                         PutObject(drive[o].bytes, o, drive[o].path, drive[o].path)]
    /\ sy' = [sy EXCEPT ![o].pc = "select"]
    /\ UNCHANGED <<file_state, now>>
    /\ SyFrame

\* put_object raises.
SyPutFail(o) ==
    /\ sy[o].pc = "put"
    /\ sy' = [sy EXCEPT ![o].pc = "except"]
    /\ UNCHANGED <<file_state, now, objects, puts, object_meta>>
    /\ SyFrame

\* upsert_file(SYNCED): "SELECT * FROM file_state WHERE sha256 = %s".
SySelect(o) ==
    /\ sy[o].pc = "select"
    /\ sy' = [sy EXCEPT ![o].pc = "write", ![o].existing = file_state[drive[o].bytes]]
    /\ UNCHANGED <<file_state, now, objects, puts, object_meta>>
    /\ SyFrame

\* The INSERT collides with a row committed since the SELECT: UniqueViolation
\* leaves upsert_file and is caught by the task's "except Exception".
InsertCollides(fs, sha256) == fs[sha256] # NoRow

\* upsert_file(SYNCED): the UPDATE or the INSERT, and the commit.
SyWrite(o) ==
    LET sha256 == drive[o].bytes
        a == [SyncArgs(o) EXCEPT !.extension = Suffix(drive[o].path)] IN
    /\ sy[o].pc = "write"
    /\ IF sy[o].existing # NoRow
       THEN /\ file_state' = [file_state EXCEPT ![sha256] =
                                 UpdateRow(sy[o].existing, @, NewKey(o), "synced", a, now)]
            /\ now' = now + 1
            /\ sy' = [sy EXCEPT ![o].pc = "done", ![o].result = "new"]
       ELSE IF InsertCollides(file_state, sha256)
       THEN /\ sy' = [sy EXCEPT ![o].pc = "except"]
            /\ UNCHANGED <<file_state, now>>
       ELSE /\ file_state' = [file_state EXCEPT ![sha256] =
                                 InsertRow(NewKey(o), "synced", a, now)]
            /\ now' = now + 1
            /\ sy' = [sy EXCEPT ![o].pc = "done", ![o].result = "new"]
    /\ UNCHANGED <<objects, puts, object_meta>>
    /\ SyFrame

\* "except Exception": upsert_file(FAILED_SYNC) with the error, return None.
SyExcept(o) ==
    /\ sy[o].pc = "except"
    /\ file_state' = UpsertFile(file_state, drive[o].bytes, NewKey(o), "failed_sync",
                                [SyncArgs(o) EXCEPT !.error_message = "error",
                                                    !.error_type = "Exception"],
                                now)
    /\ now' = now + 1
    /\ sy' = [sy EXCEPT ![o].pc = "done", ![o].result = "failed"]
    /\ UNCHANGED <<objects, puts, object_meta>>
    /\ SyFrame

InitDrive ==
    \E b \in Digests :
        drive = [o \in Origins |->
                    IF o = "o1" THEN [path |-> "a.pdf", bytes |-> "d1", mtime |-> 1]
                    ELSE [path |-> "b.txt", bytes |-> b, mtime |-> 2]]

Init ==
    /\ file_state = [d \in Digests |-> NoRow]
    /\ checkpoint = NoTime
    /\ now = 1
    /\ InitDrive
    /\ edited = FALSE
    /\ objects = {}
    /\ derivatives = [d \in Digests |-> {}]
    /\ vs_files = [d \in Digests |-> 0]
    /\ puts = [d \in Digests |-> 0]
    /\ origin_sha = [o \in Origins |-> Null]
    /\ wk = [w \in Workers |-> Idle]
    /\ sweep = {}
    /\ run = RunIdle(NoPrior)
    /\ txn = NoTxn
    /\ stage = NoStage
    /\ text_stream = Unread
    /\ sy = NoTasks
    /\ rt = NoRetry
    /\ dry = NoDry
    /\ mig = NoMigrate
    /\ object_meta = [k \in ObjectKeys |-> NoObject]
    /\ ex = NoExtract

Next ==
    \/ \E o \in Origins : SyncSkip(o) /\ UNCHANGED run
    \/ \E o \in Origins : SyncMetadataUpdate(o) /\ UNCHANGED run
    \/ \E o \in Origins : SyncMetadataUpdateFail(o) /\ UNCHANGED run
    \/ \E o \in Origins : SyncDedupeLink(o) /\ UNCHANGED run
    \/ \E o \in Origins : SyncUpload(o) /\ UNCHANGED run
    \/ \E o \in Origins : SyncUploadFail(o) /\ UNCHANGED run
    \/ \E o \in Origins : DriveRename(o)
    \/ \E w \in Workers, d \in Digests : ListIncoming(w, d)
    \/ \E w \in Workers : ProcessCheck(w)
    \/ \E w \in Workers : ProcessMark(w)
    \/ \E w \in Workers : ProcessError(w)
    \/ \E w \in Workers : ProcessPartition(w)
    \/ \E w \in Workers : ProcessEmpty(w)
    \/ \E w \in Workers : ProcessUpload(w)
    \/ \E w \in Workers : ProcessUploadFail(w)
    \/ \E w \in Workers : ProcessCommit(w)
    \/ \E w \in Workers, d \in Digests : ListUnindexed(w, d)
    \/ \E w \in Workers : IndexMark(w)
    \/ \E w \in Workers : IndexUpload(w)
    \/ \E w \in Workers : IndexFail(w)
    \/ \E w \in Workers : IndexCommit(w)
    \/ SweepSelect
    \/ SweepUpdate

Spec == Init /\ [][Next]_vars

\* ---------------------------------------------------------------------------
\* The state store alone: any caller, any sequence of upsert_file calls
\* (the pipeline stages and migrate_from_s3_markers all write through
\* upsert_file) interleaved with the stale sweep.
\* ---------------------------------------------------------------------------

FileStatus == {"synced", "processing", "processed", "indexing", "indexed",
               "failed_sync", "failed_process", "failed_index"}

ErrorMessages == {Null, "", "error"}

StoreArgs == {[NoArgs EXCEPT !.error_message = m, !.error_type = m] :
                 m \in ErrorMessages}

\* upsert_file reads and writes the row of its sha256 only, so one record is
\* followed.
StoreDigests == {"d1"}

UpsertCall(sha256, status, a) ==
    /\ now < Horizon
    /\ file_state' = UpsertFile(file_state, sha256, S3Key(sha256, ".pdf"),
                                status, a, now)
    /\ now' = now + 1
    /\ UNCHANGED <<checkpoint, drive, edited, objects, derivatives, vs_files,
                   puts, origin_sha, wk, sweep, run, txn, stage, ex,
                   object_meta, mig, dry, rt, sy, text_stream>>

StoreNext ==
    \/ \E d \in StoreDigests, status \in FileStatus, a \in StoreArgs :
          UpsertCall(d, status, a)
    \/ SweepSelect
    \/ SweepUpdate

SpecStore == Init /\ [][StoreNext]_vars


\* ---------------------------------------------------------------------------
\* The sync stage run by run (one DriveSync.sync at a time) over a drive
\* whose owner may rename an item.
\* ---------------------------------------------------------------------------

SyncNext ==
    \/ \E force_full \in BOOLEAN, max_files \in 0..MaxFilesCap :
          StartSync(force_full, max_files) /\ UNCHANGED stage
    \/ RunLoop
    \/ \E o \in Origins : RunSkip(o)
    \/ \E o \in Origins : RunMetadataUpdate(o)
    \/ \E o \in Origins : RunMetadataUpdateFail(o)
    \/ \E o \in Origins : RunDedupeLink(o)
    \/ \E o \in Origins : RunUpload(o)
    \/ \E o \in Origins : RunUploadFail(o)
    \/ \E o \in Origins : RunDownloadFail(o)
    \/ RunSaveCheckpoint
    \/ RunBatchEnd
    \/ \E o \in Origins : RunOrphan(o)
    \/ RunFinal
    \/ \E o \in Origins : DriveRename(o)

SpecSync == Init /\ [][SyncNext]_vars

\* ---------------------------------------------------------------------------
\* Two callers of upsert_file on one digest, statement by statement.
\* ---------------------------------------------------------------------------

TxnNext ==
    \/ \E w \in Workers, c \in TxnCalls : TxnBegin(w, c.status, c.a)
    \/ \E w \in Workers : TxnSelect(w)
    \/ \E w \in Workers : TxnUpdate(w)
    \/ \E w \in Workers : TxnInsert(w)
    \/ \E w \in Workers : TxnDuplicateKey(w)
    \/ TxnReturn

SpecTxn == Init /\ [][TxnNext]_vars

\* ---------------------------------------------------------------------------
\* The operator's commands: full runs, one at a time, a kill, cleanups.
\* The drive folder is not edited between the commands, so sync never takes
\* its metadata-update branch here.
\* ---------------------------------------------------------------------------

FullInit ==
    /\ file_state = [d \in Digests |-> NoRow]
    /\ checkpoint = NoTime
    /\ now = 1
    /\ InitDrive
    /\ edited = FALSE
    /\ objects = {}
    /\ derivatives = [d \in Digests |-> {}]
    /\ vs_files = [d \in Digests |-> 0]
    /\ puts = [d \in Digests |-> 0]
    /\ origin_sha = [o \in Origins |-> Null]
    /\ wk = [w \in Workers |-> Idle]
    /\ sweep = {}
    /\ run = RunIdle(NoPrior)
    /\ txn = NoTxn
    /\ stage = StageOff(MaxRunClock)
    /\ text_stream = Unread
    /\ sy = NoTasks
    /\ rt = NoRetry
    /\ dry = NoDry
    /\ mig = NoMigrate
    /\ object_meta = [k \in ObjectKeys |-> NoObject]
    /\ ex = NoExtract

FullNext ==
    \/ \E force_full \in BOOLEAN, max_files \in FullCaps :
          FullStart(force_full, max_files)
    \/ RunLoop
    \/ \E o \in Origins : RunSkip(o)
    \/ \E o \in Origins : RunDedupeLink(o)
    \/ \E o \in Origins : RunUpload(o)
    \/ \E o \in Origins : RunUploadFail(o)
    \/ \E o \in Origins : RunDownloadFail(o)
    \/ RunSaveCheckpoint
    \/ RunBatchEnd
    \/ \E o \in Origins : RunOrphan(o)
    \/ RunFinal
    \/ FullProcessList
    \/ \E w \in Workers : FullProcessTake(w)
    \/ \E w \in Workers : ProcessCheck(w)
    \/ \E w \in Workers : ProcessMark(w)
    \/ \E w \in Workers : ProcessError(w)
    \/ \E w \in Workers : ProcessPartition(w)
    \/ \E w \in Workers : ProcessEmpty(w)
    \/ \E w \in Workers : ProcessUpload(w)
    \/ \E w \in Workers : ProcessUploadFail(w)
    \/ \E w \in Workers : ProcessCommit(w)
    \/ FullIndexList
    \/ \E w \in Workers : FullIndexTake(w)
    \/ \E w \in Workers : IndexMark(w)
    \/ \E w \in Workers : IndexUpload(w)
    \/ \E w \in Workers : IndexFail(w)
    \/ \E w \in Workers : IndexCommit(w)
    \/ FullEnd
    \/ KillRun
    \/ \E max_age \in StaleAges : Cleanup(max_age)

SpecFull == FullInit /\ [][FullNext]_vars

\* ---------------------------------------------------------------------------
\* One document through single-file extraction, any document and any engine.
\* ---------------------------------------------------------------------------

ExtractInit ==
    /\ file_state = [d \in Digests |->
                       IF d = ExDigest
                       THEN InsertRow(S3Key(ExDigest, ".pdf"), "synced", NoArgs, 1)
                       ELSE NoRow]
    /\ checkpoint = NoTime
    /\ now = 2
    /\ InitDrive
    /\ edited = FALSE
    /\ objects = {S3Key(ExDigest, ".pdf")}
    /\ derivatives = [d \in Digests |-> {}]
    /\ vs_files = [d \in Digests |-> 0]
    /\ puts = [d \in Digests |-> 0]
    /\ origin_sha = [o \in Origins |-> Null]
    /\ wk = [w \in Workers |-> Idle]
    /\ sweep = {}
    /\ run = RunIdle(NoPrior)
    /\ txn = NoTxn
    /\ stage = NoStage
    /\ text_stream = Unread
    /\ sy = NoTasks
    /\ rt = NoRetry
    /\ dry = NoDry
    /\ mig = NoMigrate
    /\ object_meta = [k \in ObjectKeys |->
                        IF k = S3Key(ExDigest, ".pdf")
                        THEN PutObject(ExDigest, "o1", "a.pdf", "a.pdf")
                        ELSE NoObject]
    /\ \E engine \in {"unstructured", "docling"}, ext \in Extensions,
          total_chars \in CharCounts, page_breaks \in 0..MaxPageBreaks,
          outcome \in Outcomes, text_empty \in BOOLEAN, dry_run \in BOOLEAN :
          ex = [NoExtract EXCEPT
                  !.engine = engine, !.ext = ext, !.total_chars = total_chars,
                  !.page_breaks = page_breaks, !.outcome = outcome,
                  !.text_empty = text_empty, !.dry_run = dry_run,
                  !.strategy = "standard",
                  !.pc = IF engine = "docling" THEN "d_tmp" ELSE "mark"]

ExtractNext ==
    \/ ExMark
    \/ ExCreateTemp
    \/ ExDownload
    \/ ExDownloadFail
    \/ ExFast
    \/ ExFastFail
    \/ ExSubmit
    \/ ExResult
    \/ ExSubprocessError
    \/ ExTimeout
    \/ ExEmpty
    \/ ExUpload
    \/ ExUploadFail
    \/ ExCommit
    \/ ExFinally
    \/ ExExcept
    \/ DocCreateTemp
    \/ DocDownload
    \/ DocDownloadFail
    \/ DocConvert
    \/ DocConvertFail

SpecExtract == ExtractInit /\ [][ExtractNext]_vars

\* The drive item a digest was first synced from, and its path then.
OriginOf(sha256) == IF sha256 = "d1" THEN "o1" ELSE "o2"

OriginalPath(sha256) == IF sha256 = "d1" THEN "a.pdf" ELSE "b.txt"

\* The rows sync, extraction and indexing leave for a stored object: none,
\* synced, failed in extraction, processed, indexed.
RowsOfPipeline(o, path, key, derived) ==
    LET synced == InsertRow(key, "synced",
                            [NoArgs EXCEPT !.drive_file_id = o,
                                           !.drive_path = path,
                                           !.extension = key.ext], 1)
        failed == UpdateRow(synced, synced, key, "failed_process",
                            [NoArgs EXCEPT !.error_message = "E",
                                           !.error_type = "Exception"], 2)
        processed == UpdateRow(synced, synced, key, "processed", NoArgs, 2)
        indexed == UpdateRow(processed, processed, key, "indexed",
                             [NoArgs EXCEPT !.openai_file_id = 1,
                                            !.vector_store_id = VECTOR_STORE_ID], 3)
    IN  IF derived THEN {NoRow, synced, processed, indexed}
        ELSE {NoRow, synced, failed}

\* CAS as the marker-based pipeline and the present one leave it: a digest
\* has an object or nothing; derivatives only with an object; an indexed
\* marker only with derivatives; a failed marker only without them.
MigrateInit ==
    /\ checkpoint = NoTime
    /\ now = 4
    /\ InitDrive
    /\ edited = FALSE
    /\ vs_files = [d \in Digests |-> 0]
    /\ puts = [d \in Digests |-> 0]
    /\ origin_sha = [o \in Origins |-> Null]
    /\ wk = [w \in Workers |-> Idle]
    /\ sweep = {}
    /\ run = RunIdle(NoPrior)
    /\ txn = NoTxn
    /\ stage = NoStage
    /\ text_stream = Unread
    /\ sy = NoTasks
    /\ rt = NoRetry
    /\ dry = NoDry
    /\ ex = NoExtract
    /\ \E stored \in SUBSET Digests :
       \E derived \in SUBSET stored :
       \E indexed \in SUBSET derived :
       \E failed \in SUBSET (stored \ derived) :
       \E dry_run \in BOOLEAN :
          LET key(d) == S3Key(d, Suffix(OriginalPath(d))) IN
          /\ objects = {key(d) : d \in stored}
          /\ object_meta = [k \in ObjectKeys |->
                              IF k \in {key(d) : d \in stored}
                              THEN PutObject(k.sha, OriginOf(k.sha),
                                             OriginalPath(k.sha), OriginalPath(k.sha))
                              ELSE NoObject]
          /\ derivatives = [d \in Digests |->
                              IF d \in derived THEN FirstFiles(Len(DerivativeFiles))
                              ELSE {}]
          /\ file_state \in [Digests -> UNION {RowsOfPipeline(OriginOf(d), OriginalPath(d),
                                                               key(d), d \in derived) :
                                                d \in Digests}]
          /\ \A d \in Digests :
                /\ file_state[d] \in RowsOfPipeline(OriginOf(d), OriginalPath(d),
                                                    key(d), d \in derived)
                /\ d \notin stored => file_state[d] = NoRow
          /\ mig = [NoMigrate EXCEPT !.dry_run = dry_run, !.indexed = indexed,
                                     !.failed = failed]

MigrateNext ==
    \/ MigrateStart
    \/ \E sha256 \in Digests : MigrateKey(sha256)
    \/ MigrateNextScan
    \/ MigrateReturn

SpecMigrate == MigrateInit /\ [][MigrateNext]_vars

\* A command with --dry-run over the store and CAS earlier commands left.
DryInit ==
    /\ now = 4
    /\ InitDrive
    /\ edited = FALSE
    /\ origin_sha = [o \in Origins |-> Null]
    /\ wk = [w \in Workers |-> Idle]
    /\ sweep = {}
    /\ run = RunIdle(NoPrior)
    /\ txn = NoTxn
    /\ stage = NoStage
    /\ text_stream = Unread
    /\ sy = NoTasks
    /\ rt = NoRetry
    /\ ex = NoExtract
    /\ mig = NoMigrate
    /\ dry = [NoDry EXCEPT !.dry_run = TRUE]
    /\ checkpoint \in {NoTime, 1}
    /\ \E stored \in SUBSET Digests :
       \E derived \in SUBSET stored :
          LET key(d) == S3Key(d, Suffix(OriginalPath(d))) IN
          /\ objects = {key(d) : d \in stored}
          /\ object_meta = [k \in ObjectKeys |->
                              IF k \in {key(d) : d \in stored}
                              THEN PutObject(k.sha, OriginOf(k.sha),
                                             OriginalPath(k.sha), OriginalPath(k.sha))
                              ELSE NoObject]
          /\ derivatives = [d \in Digests |->
                              IF d \in derived THEN FirstFiles(Len(DerivativeFiles))
                              ELSE {}]
          /\ file_state \in [Digests -> UNION {RowsOfPipeline(OriginOf(d), OriginalPath(d),
                                                               key(d), d \in derived) :
                                                d \in Digests}]
          /\ \A d \in Digests :
                /\ file_state[d] \in RowsOfPipeline(OriginOf(d), OriginalPath(d),
                                                    key(d), d \in derived)
                /\ d \notin stored => file_state[d] = NoRow
    /\ vs_files = [d \in Digests |-> IF file_state[d] # NoRow
                                     THEN file_state[d].openai_file_id ELSE 0]
    /\ puts = [d \in Digests |-> IF \E k \in objects : k.sha = d THEN 1 ELSE 0]

DryNext ==
    \/ \E o \in Origins : DriveRename(o)
    \/ \E o \in Origins : SyncSkip(o) /\ UNCHANGED run
    \/ \E o \in Origins : DrySyncFound(o)
    \/ \E o \in Origins : DrySyncDedupeLink(o)
    \/ \E o \in Origins : DrySyncWouldUpload(o)
    \/ \E o \in Origins : DrySaveCheckpoint(o)
    \/ \E w \in Workers, d \in Digests : ListIncoming(w, d)
    \/ \E w \in Workers : ProcessCheck(w)
    \/ \E w \in Workers : DryProcessReturn(w)
    \/ \E w \in Workers, d \in Digests : ListUnindexed(w, d)
    \/ \E w \in Workers : DryIndexReturn(w)

SpecDry == DryInit /\ [][DryNext]_vars

\* One call of retry_with_exponential_backoff; the outcome of every call of
\* func is open. The "raise last_exception" after the loop is not reached
\* with max_retries = 5: the fifth attempt returns or raises.
RetryNext ==
    \/ RetryCall
    \/ RetryReturn
    \/ RetryRateLimitError
    \/ \E status_code \in StatusCodes : RetryAPIStatusError(status_code)
    \/ RetryOtherError

SpecRetry == Init /\ [][RetryNext]_vars

\* One batch of a sync run over the empty store, its tasks interleaved.
BatchNext ==
    \/ \E o \in Origins : SySubmit(o)
    \/ \E o \in Origins : SyByDriveId(o)
    \/ \E o \in Origins : SyByHash(o)
    \/ \E o \in Origins : SyLink(o)
    \/ \E o \in Origins : SyPut(o)
    \/ \E o \in Origins : SyPutFail(o)
    \/ \E o \in Origins : SySelect(o)
    \/ \E o \in Origins : SyWrite(o)
    \/ \E o \in Origins : SyExcept(o)

SpecBatch == Init /\ [][BatchNext]_vars

\* Sync runs over a drive whose owner replaces the content of an item: the
\* runs before the edit item by item, the tasks of the run after it step by
\* step.
EditNext ==
    \/ \E o \in Origins : SyncDedupeLink(o) /\ UNCHANGED run
    \/ \E o \in Origins : SyncUpload(o) /\ UNCHANGED run
    \/ \E o \in Origins : SyncUploadFail(o) /\ UNCHANGED run
    \/ \E o \in Origins : DriveEdit(o)
    \/ BatchNext

SpecEdit == Init /\ [][EditNext]_vars

\* ---------------------------------------------------------------------------
\* Full runs without end over a folder of two items of different content.
\* The operator starts a run whenever none is going, every stage goes on
\* while it can, and an extraction that is tried again and again on a file
\* with text succeeds in the end.
\* ---------------------------------------------------------------------------

LiveInit ==
    /\ file_state = [d \in Digests |-> NoRow]
    /\ checkpoint = NoTime
    /\ now = 1
    /\ drive = [o \in Origins |->
                   IF o = "o1" THEN [path |-> "a.pdf", bytes |-> "d1", mtime |-> 1]
                   ELSE [path |-> "b.txt", bytes |-> "d2", mtime |-> 2]]
    /\ edited = FALSE
    /\ objects = {}
    /\ derivatives = [d \in Digests |-> {}]
    /\ vs_files = [d \in Digests |-> 0]
    /\ puts = [d \in Digests |-> 0]
    /\ origin_sha = [o \in Origins |-> Null]
    /\ wk = [w \in Workers |-> Idle]
    /\ sweep = {}
    /\ run = RunIdle(NoPrior)
    /\ txn = NoTxn
    /\ stage = StageOff(LiveNow)
    /\ text_stream = Unread
    /\ sy = NoTasks
    /\ rt = NoRetry
    /\ dry = NoDry
    /\ mig = NoMigrate
    /\ object_meta = [k \in ObjectKeys |-> NoObject]
    /\ ex = NoExtract

LiveNext ==
    \/ \E max_files \in FullCaps : LiveFullStart(max_files)
    \/ \E o \in Origins : LiveSyncItem(o)
    \/ LiveProcessList
    \/ \E w \in Workers : LiveProcessMark(w)
    \/ \E w \in Workers : LiveProcessOk(w)
    \/ \E w \in Workers : LiveProcessFail(w)
    \/ LiveIndexList
    \/ \E w \in Workers : LiveIndexMark(w)
    \/ \E w \in Workers : LiveIndexOk(w)
    \/ LiveEnd

SpecLive ==
    /\ LiveInit
    /\ [][LiveNext]_vars
    /\ WF_vars(LiveNext)
    /\ SF_vars(\E w \in Workers : LiveProcessOk(w))

\* ---------------------------------------------------------------------------
\* Properties of the pipeline under Spec
\* ---------------------------------------------------------------------------

PastSynced == {"processed", "indexing", "indexed"}

\* C1: no operation moves a record whose status is processed, indexing or
\* indexed back to synced.
C1_NoReturnToSynced ==
    [][\A d \in Digests :
          file_state[d].status \in PastSynced => file_state'[d].status # "synced"]_vars

Extracting(w) == wk[w].pc \in {"p_extract", "p_empty", "p_text", "p_commit"}

\* C3: the processing status is a lock: at every instant at most one worker
\* is extracting a given digest.
C3_OneExtractorPerDigest ==
    \A w1, w2 \in Workers :
        (w1 # w2 /\ Extracting(w1) /\ Extracting(w2)) => wk[w1].sha # wk[w2].sha

\* C5: a document whose extracted text is empty never reaches processed (nor
\* indexing, indexed) and never gets a derivative artifact; the worker that
\* found the empty text ends with the row at failed_process and error_type
\* EmptyContentError.
C5_EmptyTextFails ==
    /\ [](\A d \in EmptyDocs :
            /\ file_state[d].status \notin PastSynced
            /\ derivatives[d] = {})
    /\ [][\A w \in Workers :
            (wk[w].pc = "p_empty" /\ wk'[w] # wk[w]) =>
                /\ file_state'[wk[w].sha].status = "failed_process"
                /\ file_state'[wk[w].sha].error_type = "EmptyContentError"
                /\ derivatives' = derivatives]_vars

\* An empty document has been through extraction and its row is at
\* failed_process with EmptyContentError.
C5_Witness ==
    \E d \in EmptyDocs :
        /\ file_state[d].status = "failed_process"
        /\ file_state[d].error_type = "EmptyContentError"

GuardedPc == {"p_mark", "p_commit", "i_mark", "i_commit"}

\* C7: the transitions into processing, processed, indexing and indexed clear
\* error_message and error_type and leave retry_count unchanged.
C7_SuccessKeepsRetryCount ==
    [][\A w \in Workers :
          (wk[w].pc \in GuardedPc /\ wk'[w] # wk[w]
              /\ file_state'[wk[w].sha].status \in PastSynced \cup {"processing"}) =>
                /\ file_state'[wk[w].sha].error_message \in {Null, ""}
                /\ file_state'[wk[w].sha].error_type \in {Null, ""}
                /\ file_state'[wk[w].sha].retry_count =
                       file_state[wk[w].sha].retry_count]_vars

\* C8: when two origins holding the same bytes have both been synced there is
\* one record, one CAS upload, and each origin id is still found by the
\* sync fast path as mapped to that digest.
C8_BothOriginsMapped ==
    \A o1, o2 \in Origins :
        (o1 # o2 /\ origin_sha[o1] # Null /\ origin_sha[o1] = origin_sha[o2]) =>
            /\ file_state[origin_sha[o1]] # NoRow
            /\ puts[origin_sha[o1]] = 1
            /\ RowsByDriveId(file_state, o1) = {origin_sha[o1]}
            /\ RowsByDriveId(file_state, o2) = {origin_sha[o2]}


\* ---------------------------------------------------------------------------
\* Properties of the state store under SpecStore
\* ---------------------------------------------------------------------------

\* C2: for every record and every sequence of upsert_file calls, synced_at,
\* processed_at and indexed_at are each written at most once: once non-null
\* they never change, however often the status is entered again.
C2_TimestampsWrittenOnce ==
    [][\A d \in Digests :
          file_state[d] # NoRow =>
            /\ file_state[d].synced_at # NoTime =>
                  file_state'[d].synced_at = file_state[d].synced_at
            /\ file_state[d].processed_at # NoTime =>
                  file_state'[d].processed_at = file_state[d].processed_at
            /\ file_state[d].indexed_at # NoTime =>
                  file_state'[d].indexed_at = file_state[d].indexed_at]_vars

\* A record that went through all three stages and entered synced again.
C2_Witness ==
    \E d \in Digests :
        /\ file_state[d].status = "synced"
        /\ file_state[d].processed_at # NoTime
        /\ file_state[d].indexed_at # NoTime
        /\ file_state[d].synced_at < file_state[d].updated_at

\* C6: retry_count of an existing record never decreases, whatever sequence
\* of upsert_file calls and stale sweeps is applied.
C6_RetryCountMonotone ==
    [][\A d \in Digests :
          file_state[d] # NoRow =>
              file_state'[d].retry_count >= file_state[d].retry_count]_vars

\* A record with counted retries has since been swept as stale.
C6_Witness ==
    \E d \in Digests :
        /\ file_state[d].status \in {"failed_process", "failed_index"}
        /\ file_state[d].error_type = "StaleProcessing"
        /\ file_state[d].retry_count >= 2


\* ---------------------------------------------------------------------------
\* Properties of the sync stage under SpecSync
\* ---------------------------------------------------------------------------

\* A run is in progress, the run before it has returned, and the drive is
\* what it was when that run started.
SecondRun ==
    /\ run.pc # "idle"
    /\ run.prior.done
    /\ run.prior.drive = run.start.drive
    /\ drive = run.start.drive

\* Since the run started: no upload, no new record, no updated_at lowered.
NothingNew ==
    /\ puts = run.start.puts
    /\ \A d \in Digests :
          IF run.start.file_state[d] = NoRow THEN file_state[d] = NoRow
          ELSE file_state[d].updated_at >= run.start.file_state[d].updated_at

C10_WatermarkMonotone == [][checkpoint' >= checkpoint]_vars

\* ---------------------------------------------------------------------------
\* Properties of upsert_file under SpecTxn
\* ---------------------------------------------------------------------------

Returned == {w \in Workers : txn.call[w].pc = "done"}

\* The row after the call of w is applied to row as one transaction.
Applied(row, w) ==
    UpsertFile([file_state EXCEPT ![TxnDigest] = row], TxnDigest,
               S3Key(TxnDigest, ".pdf"), txn.call[w].status, txn.call[w].a,
               txn.call[w].t)[TxnDigest]

\* The rows the serial orders of the returned calls produce.
SerialRows ==
    IF Cardinality(Returned) = 1
    THEN {Applied(txn.base, w) : w \in Returned}
    ELSE {Applied(Applied(txn.base, v), w) :
             <<v, w>> \in {p \in Returned \X Returned : p[1] # p[2]}}

\* C4: concurrent upsert_file calls on one digest are serialized: when they
\* have returned none has failed on a duplicate key and the row is the one
\* some serial order of the calls produces (no retry increment lost, no
\* first-success timestamp overwritten).
C4_UpsertSerializable ==
    (Returned # {} /\ \A w \in Workers : txn.call[w].pc \in {"idle", "done"}) =>
        /\ \A w \in Returned : ~txn.call[w].failed
        /\ file_state[TxnDigest] \in SerialRows


\* ---------------------------------------------------------------------------
\* Further properties of the sync stage under SpecSync
\* ---------------------------------------------------------------------------

\* C11: whenever the watermark is stored with value T, every drive item
\* with modified time <= T has been synced successfully (none of them
\* failed, is uncollected or unexamined).
C11_WatermarkCoversCommitted ==
    \A o \in Origins :
        (checkpoint # NoTime /\ drive[o].mtime <= checkpoint) =>
            origin_sha[o] # Null

\* The items a run has listed and not yet finished with.
Examined(r) ==
    SeqRange(r.todo) \cup SeqRange(r.file_batch) \cup r.pending \cup r.orphans

\* C12: without force_full a run examines only items whose modified time is
\* strictly after the stored watermark.
C12_ResumesAfterWatermark ==
    (run.pc # "idle" /\ ~run.force_full) =>
        \A o \in Examined(run) : drive[o].mtime > run.last_checkpoint

RECURSIVE SumOver(_, _)
SumOver(f, S) ==
    IF S = {} THEN 0
    ELSE LET x == CHOOSE y \in S : TRUE IN f[x] + SumOver(f, S \ {x})

\* New uploads (CAS put plus record insert) since the run started.
UploadsInRun == SumOver(puts, Digests) - SumOver(run.start.puts, Digests)

\* C13: with a cap N the traversal does not stop while fewer than N new
\* uploads were made and items remain, and the run never performs more than
\* N new uploads.
C13_CapBoundsUploads ==
    (run.pc # "idle" /\ run.max_files # 0) =>
        /\ (run.pc = "final" /\ run.new_files_synced < run.max_files) =>
               run.todo = <<>>
        /\ UploadsInRun <= run.max_files


\* ---------------------------------------------------------------------------
\* The stale sweep under Spec
\* ---------------------------------------------------------------------------

Swept == {f.sha : f \in sweep}

\* The rows the sweep selected are still the stale rows of some threshold,
\* each with the status the sweep saw: nothing was written in between.
QuiescentSweep ==
    /\ \E max_age \in StaleAges :
          Swept = StaleProcessingFiles(file_state, max_age, now)
    /\ \A f \in sweep : file_state[f.sha].status = f.status

\* C14: on a quiescent store mark_stale_as_failed moves every stale
\* processing row to failed_process and every stale indexing row to
\* failed_index, sets error_type StaleProcessing on them and leaves every
\* other row unchanged.
C14_SweepFrame ==
    [][(sweep # {} /\ sweep' = {} /\ QuiescentSweep) =>
          \A d \in Digests :
              IF d \in Swept
              THEN /\ file_state'[d].status =
                        (IF file_state[d].status = "processing"
                         THEN "failed_process" ELSE "failed_index")
                   /\ file_state'[d].error_type = "StaleProcessing"
              ELSE file_state'[d] = file_state[d]]_vars

\* A stale indexing row has been swept to failed_index.
C14_Witness ==
    \E d \in Digests :
        /\ file_state[d].status = "failed_index"
        /\ file_state[d].error_type = "StaleProcessing"


\* ---------------------------------------------------------------------------
\* External handles under SpecFull
\* ---------------------------------------------------------------------------

\* C19: openai_file_id and vector_store_id of a record are non-null only
\* while its status is indexed, and a record at indexed has both.
C19_HandlesOnlyWhenIndexed ==
    \A d \in Digests :
        file_state[d] # NoRow =>
            /\ (file_state[d].openai_file_id # NoId
                   \/ file_state[d].vector_store_id # Null) =>
                  file_state[d].status = "indexed"
            /\ file_state[d].status = "indexed" =>
                  /\ file_state[d].openai_file_id # NoId
                  /\ file_state[d].vector_store_id # Null


\* ---------------------------------------------------------------------------
\* Recovery under SpecFull
\* ---------------------------------------------------------------------------

\* The record failed in the run just completed, not by the sweep.
FailedInRun(d) ==
    /\ file_state[d].status \in {"failed_process", "failed_index"}
    /\ file_state[d].error_type # "StaleProcessing"

Settled == {"indexed", "failed_sync", "failed_process", "failed_index"}

\* C16: a record whose worker was killed between two of its state-store
\* writes is, once HealRuns full runs have completed after the kill, at
\* indexed or at a failed_* status.
C16_FullRunsHeal ==
    (stage.pc = "off" /\ stage.kills > 0 /\ stage.runs = HealRuns) =>
        \A r \in stage.left : file_state[r.sha].status \in Settled


\* ---------------------------------------------------------------------------
\* Stage selection under SpecFull
\* ---------------------------------------------------------------------------

\* The order of the stages of a full run (a kill ends the run from the
\* extraction or the indexing stage).
StageOrder ==
    {<<"off", "sync">>, <<"sync", "process">>, <<"process", "index">>,
     <<"index", "off">>, <<"process", "off">>}

\* The extraction stage begins / the indexing stage begins in this step.
ExtractionStarts == stage.pc = "sync" /\ stage'.pc = "process"
IndexingStarts == stage.pc = "process" /\ stage'.pc = "index"

WithinCap(todo, E, max_files) ==
    /\ todo \subseteq E
    /\ IF max_files = 0 \/ Cardinality(E) <= max_files
       THEN todo = E
       ELSE Cardinality(todo) = max_files

C18_SweepRequeuesFailedIndex ==
    (stage.pc = "off" /\ stage.cleaned) =>
        \A d \in Digests : file_state[d].status # "failed_index"


\* ---------------------------------------------------------------------------
\* Clean end of a batch run under SpecFull
\* ---------------------------------------------------------------------------

\* process_batch or index_batch returns in this step (the run is not killed).
BatchReturns ==
    \/ IndexingStarts
    \/ stage.pc = "index" /\ stage'.pc = "off" /\ stage'.kills = stage.kills

\* Worker w leaves its function in this step, having written processing or
\* indexing, and is not killed.
WorkerReturns(w) ==
    MidTransition(w) /\ wk'[w] = Idle /\ stage'.kills = stage.kills

OcrHangs ==
    /\ ex.engine = "unstructured"
    /\ ex.ext = ".pdf"
    /\ ~ex.dry_run
    /\ ex.outcome = "hangs"
    /\ ~Dense(ex.total_chars, Pages(ex.page_breaks))

\* C21: when the OCR pass of a page-format document never finishes, the
\* worker gets control back with the OCR process no longer running, the fast
\* result is used with strategy fast_fallback, and the worker ends with the
\* row out of processing.
C21_OcrTimeoutKillsAndFallsBack ==
    OcrHangs =>
        /\ (ex.proc # "none" /\ ex.pc # "wait") =>
              /\ ex.proc # "running"
              /\ ex.strategy = "fast_fallback"
        /\ ex.pc = "done" => file_state[ExDigest].status # "processing"


\* C22: when single-file extraction has returned or raised, whichever
\* engine ran it and on whichever path, its temp file no longer exists.
C22_TempFileDeleted ==
    ex.pc = "done" => ~ex.tmp


\* C30: the processing_strategy written to meta.json is one of fast, ocr,
\* fast_fallback, native: native for a non-page format; for a page format
\* fast exactly when the density is at least 200, ocr exactly when it is
\* below 200 and the OCR pass completes, fast_fallback exactly when it is
\* below 200 and the OCR pass times out.
C30_StrategyRecorded ==
    ex.recorded # Null =>
        /\ ex.recorded \in {"fast", "ocr", "fast_fallback", "native"}
        /\ ex.recorded = "native" <=> ex.ext # ".pdf"
        /\ ex.ext = ".pdf" =>
              LET dense == ex.total_chars >= 200 * Pages(ex.page_breaks) IN
              /\ ex.recorded = "fast" <=> dense
              /\ ex.recorded = "ocr" <=> (~dense /\ ex.outcome = "completes")
              /\ ex.recorded = "fast_fallback" <=> (~dense /\ ex.outcome = "hangs")


\* ---------------------------------------------------------------------------
\* The object key under Spec
\* ---------------------------------------------------------------------------

\* C23: the s3_key of a record never changes after the record's insert.
C23_ObjectKeyNeverChanges ==
    [][\A d \in Digests :
          file_state[d] # NoRow => file_state'[d].s3_key = file_state[d].s3_key]_vars


\* ---------------------------------------------------------------------------
\* Failures are recorded, under SpecSync
\* ---------------------------------------------------------------------------

\* get_statistics: the number of rows per status.
Statistics(fs) ==
    [s \in FileStatus |->
        Cardinality({d \in Digests : fs[d] # NoRow /\ fs[d].status = s})]

\* C24: whenever the sync of a drive item is collected as failed, a record
\* of that item is at failed_sync and get_statistics counts it.
C24_FailedSyncIsRecorded ==
    [][\A o \in Origins :
          (o \in run.pending /\ o \notin run'.pending
             /\ run'.failed = run.failed + 1) =>
              /\ \E d \in Digests :
                    /\ file_state'[d] # NoRow
                    /\ file_state'[d].drive_file_id = o
                    /\ file_state'[d].status = "failed_sync"
              /\ Statistics(file_state')["failed_sync"] > 0]_vars


\* ---------------------------------------------------------------------------
\* The metadata-only update under SpecSync
\* ---------------------------------------------------------------------------

\* The task of item o is collected in this step.
TaskCollected(o) == o \in run.pending /\ o \notin run'.pending

\* The store knows the origin id of item o under another path than the
\* drive reports; d is its record.
Renamed(o, d) ==
    /\ d \in RowsByDriveId(file_state, o)
    /\ file_state[d].drive_path # drive[o].path

\* No download result is stored, nothing is put, no record is created.
NoUploadNoRecord ==
    /\ puts' = puts
    /\ objects' = objects
    /\ \A e \in Digests : file_state[e] = NoRow => file_state'[e] = NoRow

\* The object of the record carries the new name and path, its sha256 field
\* and its body as before, and the record the new path.
MetadataReplaced(o, d) ==
    LET k == file_state[d].s3_key IN
    /\ k \in objects
    /\ object_meta'[k].metadata.original_name = drive[o].path
    /\ object_meta'[k].metadata.drive_path = drive[o].path
    /\ object_meta'[k].metadata.sha256 = object_meta[k].metadata.sha256
    /\ object_meta'[k].body = object_meta[k].body
    /\ file_state'[d].drive_path = drive[o].path

\* The CAS call failed although the object exists: nothing is changed.
CallFailed(d) ==
    /\ file_state[d].s3_key \in objects
    /\ object_meta' = object_meta
    /\ file_state' = file_state

\* C25: when sync handles an item whose origin id is known under another
\* path, it uploads nothing, creates no record, and (unless the CAS call on
\* an existing object fails) replaces the object's name and path metadata,
\* keeping its sha256 field and its body, and stores the new path.
C25_MetadataOnlyUpdate ==
    [][\A o \in Origins, d \in Digests :
          (TaskCollected(o) /\ Renamed(o, d)) =>
              /\ NoUploadNoRecord
              /\ MetadataReplaced(o, d) \/ CallFailed(d)]_vars


\* ---------------------------------------------------------------------------
\* Migration under SpecMigrate
\* ---------------------------------------------------------------------------

\* The fields of a record other than the bookkeeping timestamps.
Content(row) ==
    IF row = NoRow THEN NoRow
    ELSE [status |-> row.status, s3_key |-> row.s3_key,
          openai_file_id |-> row.openai_file_id,
          vector_store_id |-> row.vector_store_id,
          error_message |-> row.error_message, error_type |-> row.error_type,
          retry_count |-> row.retry_count]

\* C26: after the second run of migrate over the same CAS contents every
\* record has the status, key, handles and error block (retry_count
\* included) it had after the first run, and a dry run writes nothing.
C26_MigrateIdempotent ==
    /\ (mig.pc = "done" /\ mig.runs = MaxMigrateRuns) =>
           \A d \in Digests : Content(file_state[d]) = Content(mig.first[d])
    /\ (mig.dry_run /\ mig.pc # "none") => file_state = mig.before

\* C27: after a migrate that is not a dry run, a digest with an object and a
\* meta.json is at processed, indexing or indexed; with an indexed marker
\* too it is at indexed; and a record that was at indexed before the run is
\* at indexed.
C27_MigrateStatus ==
    (mig.pc = "done" /\ ~mig.dry_run) =>
        \A d \in Digests :
            /\ (d \in Listed("objects") /\ d \in Listed("derivatives")) =>
                   file_state[d].status \in {"processed", "indexing", "indexed"}
            /\ (d \in Listed("objects") /\ d \in Listed("derivatives")
                  /\ d \in Listed("indexed")) =>
                   file_state[d].status = "indexed"
            /\ (mig.before[d] # NoRow /\ mig.before[d].status = "indexed") =>
                   file_state[d].status = "indexed"


\* ---------------------------------------------------------------------------
\* Dry run under SpecDry
\* ---------------------------------------------------------------------------

\* The state store, the checkpoint, CAS and the vector store.
Durable ==
    <<file_state, checkpoint, objects, object_meta, derivatives, vs_files, puts>>

\* C28: with --dry-run no step of sync, extraction or indexing changes the
\* state store, the checkpoint, the objects of CAS or their metadata, or the
\* vector store.
C28_DryRunWritesNothing == [][dry.dry_run => Durable' = Durable]_vars

\* A dry run over a store with records has been through the renamed item,
\* the checkpoint, extraction and indexing.
C28_Witness ==
    /\ dry.dry_run
    /\ {"sync_found", "save_checkpoint", "process", "index"} \subseteq dry.returned
    /\ \E d \in Digests : file_state[d] # NoRow


\* ---------------------------------------------------------------------------
\* Backoff under SpecRetry
\* ---------------------------------------------------------------------------

\* The errors after which func may be called again.
Retryable(e) ==
    \/ e = RateLimit
    \/ e.error = "APIError" /\ e.status_code \in 500..599

\* C29: func is called at most 5 times; a further call follows only a
\* rate-limit error or an API error with status 500-599; any other API error
\* is raised at once; when the attempts are used up the last error is
\* raised; and the result of the first call that succeeds is returned.
C29_RetryPolicy ==
    LET n == Len(rt.calls) IN
    /\ n <= 5
    /\ \A i \in 1..(n - 1) : Retryable(rt.calls[i])
    /\ (n > 0 /\ rt.calls[n].error = "APIError" /\ ~Retryable(rt.calls[n])) =>
           rt.pc = "raised" /\ rt.raised = rt.calls[n]
    /\ (n = 5 /\ rt.calls[n] # FuncReturns) =>
           rt.pc = "raised" /\ rt.raised = rt.calls[n]
    /\ (n > 0 /\ rt.calls[n] = FuncReturns) =>
           rt.pc = "returned" /\ rt.result = "result"
    /\ rt.pc = "returned" => n > 0 /\ rt.calls[n] = FuncReturns

\* Four server errors were retried and the fifth is raised.
C29_Witness ==
    /\ rt.pc = "raised"
    /\ Len(rt.calls) = 5
    /\ rt.raised = APIErrorOf(500)
    /\ rt.waits = <<1, 2, 4, 8>>


\* ---------------------------------------------------------------------------
\* Derivatives before processed, under Spec
\* ---------------------------------------------------------------------------

\* The three derivative objects of digest d exist in CAS.
DerivativesComplete(dv, d) == \A f \in {"elements.jsonl", "text.txt", "meta.json"} : f \in dv[d]

\* Worker w is at the three puts in this step and does not get through them.
PutRaises(w) == wk[w].pc = "p_text" /\ wk'[w] = Idle

\* C31: after every step a record at processed (or beyond) has its
\* elements.jsonl, text.txt and meta.json in CAS, and a worker whose put of
\* one of the three raises leaves the record at failed_process.
C31_DerivativesBeforeProcessed ==
    [][/\ \A d \in Digests :
             (file_state'[d] # NoRow
                /\ file_state'[d].status \in {"processed", "indexing", "indexed"}) =>
                 DerivativesComplete(derivatives', d)
       /\ \A w \in Workers :
             PutRaises(w) => file_state'[wk[w].sha].status = "failed_process"]_vars

\* A record is at processed, its worker back from the commit, with the three
\* derivatives in CAS.
C31_Witness ==
    \E d \in Digests :
        /\ file_state[d] # NoRow
        /\ file_state[d].status = "processed"
        /\ file_state[d].processed_at # NoTime
        /\ DerivativesComplete(derivatives, d)


\* ---------------------------------------------------------------------------
\* The object of a synced record, under Spec
\* ---------------------------------------------------------------------------

\* C32: every record at synced has an s3_key that names an object in CAS.
C32_SyncedObjectExists ==
    \A d \in Digests :
        (file_state[d] # NoRow /\ file_state[d].status = "synced") =>
            file_state[d].s3_key \in objects


\* ---------------------------------------------------------------------------
\* Two tasks with the same bytes, under SpecBatch
\* ---------------------------------------------------------------------------

\* Both tasks have returned, their items hold the same bytes, and every task
\* has put its object or found the digest in the store.
SameBytesDone ==
    /\ drive["o1"].bytes = drive["o2"].bytes
    /\ \A o \in Origins :
          /\ sy[o].pc = "done"
          /\ NewKey(o) \in objects \/ sy[o].result = "linked"

\* C33: when the tasks of two items with the same, new bytes have returned,
\* the digest's record is at synced with no error recorded.
C33_SameBytesBothSynced ==
    SameBytesDone =>
        LET row == file_state[drive["o1"].bytes] IN
        /\ row # NoRow
        /\ row.status = "synced"
        /\ row.error_message = Null


\* ---------------------------------------------------------------------------
\* The sweep against a worker, under Spec
\* ---------------------------------------------------------------------------

\* The step is the sweep's second transaction, the UPDATEs.
SweepUpdates == sweep # {} /\ sweep' = {}

\* C34: the UPDATEs of the stale sweep leave the status of every row that is
\* no longer at processing or indexing as it is.
C34_SweepSparesFinishedRows ==
    [][\A d \in Digests :
          (SweepUpdates /\ file_state[d] # NoRow
             /\ file_state[d].status \notin {"processing", "indexing"}) =>
              file_state'[d].status = file_state[d].status]_vars

\* C35: no digest has more than one file uploaded to the vector store.
C35_UploadedAtMostOnce == \A d \in Digests : vs_files[d] <= 1

\* The step returns origin o as already stored without writing anything:
\* the fast path of STEP 1.
FastPath(o) == origin_sha'[o] # origin_sha[o] /\ file_state' = file_state

\* C36: the fast path is never taken for an origin whose record is at
\* failed_sync.
C36_FailedSyncAttemptedAgain ==
    [][\A o \in Origins :
          FastPath(o) =>
              \A d \in RowsByDriveId(file_state, o) :
                  file_state[d].status # "failed_sync"]_vars

\* The task of origin o has returned a key.
TaskReturnedKey(o) == sy[o].pc = "done" /\ sy[o].result # "failed"

\* C37: once the sync task of an item has returned a key, the bytes the
\* item has on the drive have a row of their own.
C37_EditedBytesGetRecord ==
    \A o \in Origins :
        TaskReturnedKey(o) => file_state[drive[o].bytes] # NoRow

\* The step writes row d with a failed_* status.
IntoFailed(d) ==
    /\ file_state'[d] # file_state[d]
    /\ file_state'[d].status \in {"failed_sync", "failed_process", "failed_index"}

\* C38: a step that writes an existing row with a failed_* status adds one to
\* its retry_count, and every other step leaves retry_count as it is.
C38_RetryCountCountsFailures ==
    [][\A d \in Digests :
          (file_state[d] # NoRow /\ file_state'[d] # NoRow) =>
              file_state'[d].retry_count =
                  file_state[d].retry_count + (IF IntoFailed(d) THEN 1 ELSE 0)]_vars

\* C39: the call of upload_file that returned put the whole of text.txt into
\* its request.
C39_UploadSendsWholeText ==
    rt.pc = "returned" =>
        text_stream.sent[Len(text_stream.sent)] = TextChunks

\* C40: under full runs without end, every row at synced or failed_process
\* whose document has text is indexed in the end.
C40_EligibleEventuallyIndexed ==
    \A d \in Digests \ EmptyDocs :
        (file_state[d] # NoRow
            /\ file_state[d].status \in {"synced", "failed_process"})
          ~> (file_state[d] # NoRow /\ file_state[d].status = "indexed")

============================================================================
